---- MODULE Spec2Model ----
(***************************************************************************)
(* CROUS-BOT: the listing monitor (src/src/monitor.py), its seen-state     *)
(* store (src/src/state_store.py), the listing record (src/src/models.py)  *)
(* and the Telegram notifier (src/src/telegram_notifier.py).               *)
(*                                                                         *)
(* Python text (str) is a sequence of one-character strings; an optional   *)
(* value (None or a value) is a sequence of length 0 or 1.  A command word  *)
(* such as "/setmaxprice" is one symbol of a text.                         *)
(***************************************************************************)
EXTENDS Integers, Sequences, FiniteSets, TLC

VARIABLES
    seen,           \* table seen_listings: fingerprint -> row
    meta,           \* table meta: key -> value (text)
    clock,          \* datetime.now(timezone.utc)
    pc,             \* position of run_forever
    dry_run,        \* --dry-run of this process run
    failure_count,  \* local variable failure_count of run_forever
    inbox,          \* updates the Telegram server holds for the bot
    next_update_id, \* update_id the server gives the next update
    new_listings,   \* return value of the last filter_new
    hb_result,      \* return value of the last should_send_heartbeat
    sent,           \* messages posted to Telegram by the last step
    sleeps,         \* time.sleep calls of the current loop iteration
    settings,       \* the Settings this process run loaded
    hist            \* history of the run (observation only)

vars == <<seen, meta, clock, pc, dry_run, failure_count, inbox, next_update_id,
          new_listings, hb_result, sent, sleeps, settings, hist>>

-----------------------------------------------------------------------------
(* Bounds of the model *)

MaxLen == 2            \* longest listing list handed to filter_new
MaxStoreTicks == 1     \* clock ticks between the direct calls of the store
MaxClock == 2          \* the clock of the loop stops advancing here
MaxDryClock == 1       \* the clock of the dry-run loop stops advancing here
MaxDryFailures == 1    \* most failures in a row of the dry-run loop
MaxDryUpdateId == 1    \* last update id the server hands out to the dry-run loop
MaxCallClock == 4      \* the clock stops here between direct should_send_* calls
MaxInterval == 2       \* longest heartbeat interval, in clock ticks
MaxInbox == 2          \* most updates pending on the Telegram server
MaxUpdateId == 2       \* last update id the server hands out
MaxFailures == 3       \* failed cycles counted before the model stops failing
MaxPage == 1           \* most listings one search page shows
MaxAdvance == 1        \* most clock ticks one sleep takes

-----------------------------------------------------------------------------
(* Python text operations *)

None == <<>>
Some(x) == <<x>>

Digits == <<"0", "1", "2", "3", "4", "5", "6", "7", "8", "9">>

IsDecimalChar(c) == \E i \in 1..10 : Digits[i] = c

DigitVal(c) == (CHOOSE i \in 1..10 : Digits[i] = c) - 1

\* str.isdigit is true of every Unicode digit, the superscript two (written "^2" here) included
IsDigitChar(c) == IsDecimalChar(c) \/ c = "^2"

isdigit(s) == Len(s) > 0 /\ \A i \in 1..Len(s) : IsDigitChar(s[i])

RECURSIVE lstrip(_)
lstrip(s) == IF s # <<>> /\ Head(s) = " " THEN lstrip(Tail(s)) ELSE s

RECURSIVE rstrip(_)
rstrip(s) ==
    IF s # <<>> /\ s[Len(s)] = " " THEN rstrip(SubSeq(s, 1, Len(s) - 1)) ELSE s

strip(s) == rstrip(lstrip(s))

\* int(text): defined when int_ok, a ValueError otherwise
int_ok(s) ==
    LET t == strip(s) IN Len(t) > 0 /\ \A i \in 1..Len(t) : IsDecimalChar(t[i])

RECURSIVE int_digits(_)
int_digits(t) ==
    IF t = <<>> THEN 0
    ELSE 10 * int_digits(SubSeq(t, 1, Len(t) - 1)) + DigitVal(t[Len(t)])

int(s) == int_digits(strip(s))

RECURSIVE str(_)
str(n) ==
    IF n < 10 THEN <<Digits[n + 1]>>
    ELSE str(n \div 10) \o <<Digits[(n % 10) + 1]>>

LowerChar(c) ==
    CASE c = "A" -> "a"
      [] c = "B" -> "b"
      [] c = "S" -> "s"
      [] c = "T" -> "t"
      [] c = "Aucun" -> "aucun"
      [] c = "/SetMaxPrice" -> "/setmaxprice"
      [] OTHER -> c

lower(s) == [i \in 1..Len(s) |-> LowerChar(s[i])]

RECURSIVE join(_, _)
join(sep, parts) ==
    IF parts = <<>> THEN <<>>
    ELSE IF Len(parts) = 1 THEN parts[1]
    ELSE parts[1] \o sep \o join(sep, Tail(parts))

\* text.split(c) for a one-character separator c
RECURSIVE split(_, _)
split(s, c) ==
    IF \A i \in 1..Len(s) : s[i] # c THEN <<s>>
    ELSE LET k == CHOOSE i \in 1..Len(s) :
                      s[i] = c /\ \A j \in 1..(i - 1) : s[j] # c
         IN <<SubSeq(s, 1, k - 1)>> \o split(SubSeq(s, k + 1, Len(s)), c)

\* needle in haystack
contains(haystack, needle) ==
    \E i \in 0..(Len(haystack) - Len(needle)) :
        SubSeq(haystack, i + 1, i + Len(needle)) = needle

\* OrderedDict.fromkeys(items).keys(): first occurrences, in order
RECURSIVE fromkeys(_)
fromkeys(items) ==
    IF items = <<>> THEN <<>>
    ELSE LET init == fromkeys(SubSeq(items, 1, Len(items) - 1))
             last == items[Len(items)]
         IN IF \E i \in 1..Len(init) : init[i] = last THEN init
            ELSE Append(init, last)

\* datetime.isoformat and datetime.fromisoformat on the model's clock values
isoformat(t) == str(t)
fromisoformat(s) == int(s)

-----------------------------------------------------------------------------
(* Listing (models.py) *)

\* value or "" of an optional text
or_empty(opt) == IF opt = None THEN <<>> ELSE opt[1]

\* str(self.price_eur or ""): None and 0 both give ""
price_text(price_eur) ==
    IF price_eur = None \/ price_eur[1] = 0 THEN <<>> ELSE str(price_eur[1])

\* the digest is taken to be collision free: the fingerprint is the text hashed
fingerprint(listing) ==
    join(<<"|">>, << or_empty(listing.external_id),
                     listing.url,
                     lower(strip(listing.title)),
                     price_text(listing.price_eur) >>)

Listing(title, url, price_eur, city, residence, external_id) ==
    [price_eur |-> price_eur, external_id |-> external_id, url |-> url,
     title |-> title, city |-> city, residence |-> residence]

\* the listings the search pages of the model can show
Listings ==
    { Listing(<<"T", "2">>, <<"u", "1">>, Some(420), None, None, Some(<<"7">>)),
      Listing(<<" ", "t", "2">>, <<"u", "1">>, Some(420), Some(<<"A">>), None,
              Some(<<"7">>)),
      Listing(<<"S">>, <<"u", "2">>, Some(501), None, Some(<<"B">>), None),
      Listing(<<"S">>, <<"u", "2">>, None, None, None, None),
      Listing(<<"S">>, <<"u", "2">>, Some(0), None, None, None) }

Fingerprints == { fingerprint(l) : l \in Listings }

\* the listings handed to the direct calls of filter_new
StoreListings == { l \in Listings : l.price_eur # Some(0) }

SeqsUpTo(S, n) == UNION { [1..k -> S] : k \in 0..n }

-----------------------------------------------------------------------------
(* StateStore (state_store.py) *)

get_meta(m, key) == IF key \in DOMAIN m THEN Some(m[key]) ELSE None

set_meta(m, key, value) ==
    [k \in DOMAIN m \cup {key} |-> IF k = key THEN value ELSE m[k]]

\* "if raw_value:" of an optional text: neither None nor ""
truthy(opt) == opt # None /\ opt[1] # <<>>

\* the SELECT of filter_new: is there a row with this fingerprint
row_exists_never(rows, fp) == FALSE

row_exists(rows, fp) == fp \in DOMAIN rows

insert_seen(rows, listing, now) ==
    [f \in DOMAIN rows \cup {fingerprint(listing)} |->
        IF f \in DOMAIN rows THEN rows[f]
        ELSE [url |-> listing.url, title |-> listing.title, first_seen_at |-> now]]

\* the loop of filter_new over one connection: rows and new_items after it
RECURSIVE filter_new_loop(_, _, _, _)
filter_new_loop(rows, listings, now, new_items) ==
    IF listings = <<>> THEN [rows |-> rows, new_items |-> new_items]
    ELSE LET listing == Head(listings) IN
         IF row_exists(rows, fingerprint(listing))
         THEN filter_new_loop(rows, Tail(listings), now, new_items)
         ELSE filter_new_loop(insert_seen(rows, listing, now), Tail(listings),
                              now, Append(new_items, listing))

\* filter_new that rewrites the row of every listing it is given
filter_new_refreshes(rows, m, listings, t) ==
    LET now == isoformat(t)
        r == filter_new_loop(rows, listings, now, <<>>)
        given(f) == {i \in 1..Len(listings) : fingerprint(listings[i]) = f}
        latest(f) == listings[CHOOSE i \in given(f) : \A j \in given(f) : j <= i]
    IN [seen |-> [f \in DOMAIN r.rows |->
                     IF given(f) = {} THEN r.rows[f]
                     ELSE [url |-> latest(f).url, title |-> latest(f).title,
                           first_seen_at |-> now]],
        meta |-> set_meta(m, "last_poll_at", now),
        new_items |-> r.new_items]

filter_new(rows, m, listings, t) ==
    LET now == isoformat(t)
        r == filter_new_loop(rows, listings, now, <<>>)
    IN [seen |-> r.rows,
        meta |-> set_meta(m, "last_poll_at", now),
        new_items |-> r.new_items]

failures_key == "consecutive_failures"

reset_failure_count(m) == set_meta(m, "consecutive_failures", str(0))

register_failure_count_forgets(m) == 1

\* register_failure: the counter it returns and the meta table after it
register_failure_count(m) ==
    LET current == get_meta(m, "consecutive_failures")
        current_count == IF truthy(current) THEN int(current[1]) ELSE 0
    IN current_count + 1

register_failure(m) ==
    set_meta(m, "consecutive_failures", str(register_failure_count(m)))

should_send_heartbeat_late(m, t, interval) ==
    LET key == "last_heartbeat_at"
        raw_value == get_meta(m, key)
    IN IF ~truthy(raw_value)
       THEN [result |-> FALSE, meta |-> set_meta(m, key, isoformat(t))]
       ELSE IF t - fromisoformat(raw_value[1]) > interval
       THEN [result |-> TRUE, meta |-> set_meta(m, key, isoformat(t))]
       ELSE [result |-> FALSE, meta |-> m]

\* should_send_heartbeat: [result, meta]
should_send_heartbeat(m, t, interval) ==
    LET key == "last_heartbeat_at"
        raw_value == get_meta(m, key)
    IN IF ~truthy(raw_value)
       THEN [result |-> FALSE, meta |-> set_meta(m, key, isoformat(t))]
       ELSE IF t - fromisoformat(raw_value[1]) >= interval
       THEN [result |-> TRUE, meta |-> set_meta(m, key, isoformat(t))]
       ELSE [result |-> FALSE, meta |-> m]

should_send_error_alert_not_first(m, t, cooldown) ==
    LET key == "last_error_alert_at"
        raw_value == get_meta(m, key)
    IN IF ~truthy(raw_value)
       THEN [result |-> FALSE, meta |-> set_meta(m, key, isoformat(t))]
       ELSE IF t - fromisoformat(raw_value[1]) >= cooldown
       THEN [result |-> TRUE, meta |-> set_meta(m, key, isoformat(t))]
       ELSE [result |-> FALSE, meta |-> m]

\* should_send_error_alert: [result, meta]
should_send_error_alert(m, t, cooldown) ==
    LET key == "last_error_alert_at"
        raw_value == get_meta(m, key)
    IN IF ~truthy(raw_value)
       THEN [result |-> TRUE, meta |-> set_meta(m, key, isoformat(t))]
       ELSE IF t - fromisoformat(raw_value[1]) >= cooldown
       THEN [result |-> TRUE, meta |-> set_meta(m, key, isoformat(t))]
       ELSE [result |-> FALSE, meta |-> m]

-----------------------------------------------------------------------------
(* Settings (config.py) *)

telegram_chat_ids == << <<"1">>, <<"2">> >>

NumSources == 2                 \* len(settings.crous_search_urls)

\* the Settings of a run: the filter, heartbeat, alert and poll values.
\* timedelta(hours=heartbeat_interval_hours) and
\* timedelta(minutes=error_alert_cooldown_minutes) are counted in clock ticks
SettingsOf(max_price, keywords, heartbeat, hb_interval, threshold, cooldown, interval, jitter) ==
    [filter_max_price_eur |-> max_price,
     filter_include_keywords |-> keywords,
     heartbeat_enabled |-> heartbeat,
     heartbeat_interval_hours |-> hb_interval,
     error_alert_threshold |-> threshold,
     error_alert_cooldown_minutes |-> cooldown,
     poll_interval_seconds |-> interval,
     poll_jitter_seconds |-> jitter]

-----------------------------------------------------------------------------
(* TelegramNotifier (telegram_notifier.py) *)

Min(a, b) == IF a < b THEN a ELSE b
Max(a, b) == IF a > b THEN a ELSE b

\* One requests.post of _send_message
Post(kind, to, ok, about) == [kind |-> kind, to |-> to, ok |-> ok, about |-> about]

\* _send_message when the next `net` posts succeed and the one after fails:
\* the posts made, and whether raise_for_status raised
_send_message(kind, about, chat_id, net) ==
    LET target_chat_ids == IF truthy(chat_id) THEN <<chat_id[1]>> ELSE telegram_chat_ids
        n == Len(target_chat_ids)
    IN [sent |-> [i \in 1..Min(net + 1, n) |->
                      Post(kind, target_chat_ids[i], i <= net, about)],
        raised |-> net < n]

send_new_listing(listing, net) ==
    _send_message("new_listing", fingerprint(listing), None, net)

send_heartbeat(net) == _send_message("heartbeat", <<>>, None, net)

send_error_alert(failure_count_, net) ==
    _send_message("error_alert", str(failure_count_), None, net)

send_text(text, chat_id, net) == _send_message("text", text, Some(chat_id), net)

\* the posts of `posts` that were delivered
Delivered(posts) == { i \in 1..Len(posts) : posts[i].ok }

-----------------------------------------------------------------------------
(* MonitorService: filters and commands (monitor.py) *)

\* the items of text.split(",") that are not blank, stripped and lowercased
keyword_items(text) ==
    LET items == split(text, ",")
        kept == SelectSeq(items, LAMBDA item : strip(item) # <<>>)
    IN [i \in 1..Len(kept) |-> lower(strip(kept[i]))]

\* _get_effective_filters raises ValueError when int(override_price) does
effective_filters_ok(m) ==
    LET override_price == get_meta(m, "filter_max_price_override")
    IN truthy(override_price) => int_ok(override_price[1])

effective_max_price_static(m, st) == st.filter_max_price_eur

effective_max_price(m, st) ==
    LET override_price == get_meta(m, "filter_max_price_override")
    IN IF truthy(override_price) THEN Some(int(override_price[1]))
       ELSE st.filter_max_price_eur

effective_keywords(m, st) ==
    LET override_keywords == get_meta(m, "filter_keywords_override")
    IN IF truthy(override_keywords)
       THEN fromkeys(keyword_items(override_keywords[1]))
       ELSE st.filter_include_keywords

haystack_as_written(listing) ==
    join(<<" ">>, << listing.title, or_empty(listing.city),
                    or_empty(listing.residence), listing.url >>)

haystack(listing) ==
    lower(join(<<" ">>, << listing.title, or_empty(listing.city),
                          or_empty(listing.residence), listing.url >>))

passes_filters_below(listing, max_price, keywords) ==
    /\ ~(max_price # None /\ listing.price_eur # None
            /\ listing.price_eur[1] >= max_price[1])
    /\ (keywords # <<>> =>
            \E i \in 1..Len(keywords) : contains(haystack(listing), keywords[i]))

passes_filters(listing, max_price, keywords) ==
    /\ ~(max_price # None /\ listing.price_eur # None
            /\ listing.price_eur[1] > max_price[1])
    /\ (keywords # <<>> =>
            \E i \in 1..Len(keywords) : contains(haystack(listing), keywords[i]))

\* _apply_filters, where _get_effective_filters does not raise
_apply_filters(listings, m, st) ==
    SelectSeq(listings, LAMBDA listing :
        passes_filters(listing, effective_max_price(m, st), effective_keywords(m, st)))

_format_filter_status(max_price, keywords) ==
    LET price_txt == IF max_price # None
                     THEN <<"<", "=", " ">> \o str(max_price[1]) \o <<" ", "€">>
                     ELSE <<"none">>
        keyword_text == IF keywords # <<>> THEN join(<<",", " ">>, keywords)
                        ELSE <<"none">>
    IN <<"Filters updated", "Max price: ">> \o price_txt
           \o <<"Keywords: ">> \o keyword_text

_reply_always(text, chat_id, dry, net) == send_text(text, chat_id, net)

\* _reply: nothing is posted in a dry run
_reply(text, chat_id, dry, net) ==
    IF dry THEN [sent |-> <<>>, raised |-> FALSE]
    ELSE send_text(text, chat_id, net)

\* text.partition(" "): the text before the first space and the text after it
partition(text) ==
    IF \A i \in 1..Len(text) : text[i] # " " THEN <<text, <<>>>>
    ELSE LET k == CHOOSE i \in 1..Len(text) :
                      text[i] = " " /\ \A j \in 1..(i - 1) : text[j] # " "
         IN <<SubSeq(text, 1, k - 1), SubSeq(text, k + 1, Len(text))>>

\* the replies with the filter status, after the store became m2
status_reply(m2, st, chat_id, dry, net) ==
    IF ~effective_filters_ok(m2) THEN [meta |-> m2, sent |-> <<>>, raised |-> TRUE]
    ELSE LET r == _reply(_format_filter_status(effective_max_price(m2, st),
                                               effective_keywords(m2, st)),
                         chat_id, dry, net)
         IN [meta |-> m2, sent |-> r.sent, raised |-> r.raised]

plain_reply(m, text, chat_id, dry, net) ==
    LET r == _reply(text, chat_id, dry, net)
    IN [meta |-> m, sent |-> r.sent, raised |-> r.raised]

\* the store write of a mutating command: skipped in a dry run
command_write_always(m, key, value, dry) == set_meta(m, key, value)

command_write(m, key, value, dry) == IF dry THEN m ELSE set_meta(m, key, value)

\* _handle_telegram_command: [meta, sent, raised]
_handle_telegram_command(text, chat_id, dry, m, st, net) ==
    LET command_token == partition(text)[1]
        remainder == partition(text)[2]
        command == lower(split(command_token, "@")[1])
        arg == strip(remainder)
        keywords == keyword_items(arg)
    IN CASE command = <<"/setmaxprice">> ->
              IF ~isdigit(arg)
              THEN plain_reply(m, <<"Usage: /setmaxprice <amount_in_eur>">>,
                               chat_id, dry, net)
              ELSE status_reply(command_write(m, "filter_max_price_override", arg, dry),
                                st, chat_id, dry, net)
         [] command = <<"/clearmaxprice">> ->
              status_reply(command_write(m, "filter_max_price_override", <<>>, dry),
                           st, chat_id, dry, net)
         [] command = <<"/setkeywords">> ->
              IF arg = <<>> \/ keywords = <<>>
              THEN plain_reply(m, <<"Usage: /setkeywords keyword1,keyword2">>,
                               chat_id, dry, net)
              ELSE status_reply(command_write(m, "filter_keywords_override",
                                              join(<<",">>, fromkeys(keywords)), dry),
                                st, chat_id, dry, net)
         [] command = <<"/clearkeywords">> ->
              status_reply(command_write(m, "filter_keywords_override", <<>>, dry),
                           st, chat_id, dry, net)
         [] command = <<"/showfilters">> ->
              status_reply(m, st, chat_id, dry, net)
         [] command = <<"/help">> ->
              plain_reply(m, <<"Commands:">>, chat_id, dry, net)
         [] OTHER ->
              plain_reply(m, <<"Unknown command. Send /help for available commands.">>,
                          chat_id, dry, net)

-----------------------------------------------------------------------------
(* Telegram updates and sync_telegram_commands (monitor.py) *)

TelegramLimit == 20

Update(update_id, message) == [update_id |-> update_id, message |-> message]
Message(chat_id, text) == [chat_id |-> chat_id, text |-> text]

\* the words a text of the model can start with that begin with "/"
SlashWords ==
    {"/setmaxprice", "/SetMaxPrice", "/clearmaxprice", "/setkeywords",
     "/clearkeywords", "/showfilters", "/help", "/foo"}

startswith_slash(text) == text # <<>> /\ Head(text) \in SlashWords

is_configured_chat_any(chat_id) == TRUE

is_configured_chat(chat_id) ==
    \E i \in 1..Len(telegram_chat_ids) : telegram_chat_ids[i] = chat_id

\* whether the loop of sync_telegram_commands hands the update to the handler
is_command(update) ==
    /\ update.message # None
    /\ is_configured_chat(update.message[1].chat_id)
    /\ startswith_slash(strip(update.message[1].text))

\* getUpdates: the pending updates from `offset` on, `limit` at most
get_updates(pending, offset, limit) ==
    LET from == SelectSeq(pending, LAMBDA u : u.update_id >= offset)
    IN SubSeq(from, 1, Min(limit, Len(from)))

stored_offset(m) ==
    LET raw_offset == get_meta(m, "telegram_update_offset")
    IN IF truthy(raw_offset) THEN int(raw_offset[1]) ELSE 0

\* the for loop of sync_telegram_commands from update i on:
\* [meta, sent, raised, max_update_id, outcomes]
RECURSIVE sync_loop(_, _, _, _, _, _, _, _, _)
sync_loop(updates, i, m, st, dry, net, max_update_id, sent_, outcomes) ==
    IF i > Len(updates)
    THEN [meta |-> m, sent |-> sent_, raised |-> FALSE,
          max_update_id |-> max_update_id, outcomes |-> outcomes]
    ELSE LET update == updates[i]
             max2 == Max(max_update_id, update.update_id)
         IN IF ~is_command(update)
            THEN sync_loop(updates, i + 1, m, st, dry, net, max2, sent_,
                           Append(outcomes, "ignored"))
            ELSE LET after(r) ==
                         IF r.raised
                         THEN [meta |-> r.meta, sent |-> sent_ \o r.sent,
                               raised |-> TRUE, max_update_id |-> max2,
                               outcomes |-> Append(outcomes, "failed")]
                         ELSE sync_loop(updates, i + 1, r.meta, st, dry,
                                        net - Len(r.sent), max2, sent_ \o r.sent,
                                        Append(outcomes, "handled"))
                 IN after(_handle_telegram_command(
                              strip(update.message[1].text),
                              update.message[1].chat_id, dry, m, st, net))

\* the offset write after the loop
offset_after_loop_always(m, offset, max_update_id, dry) ==
    set_meta(m, "telegram_update_offset", str(max_update_id + 1))

offset_after_loop(m, offset, max_update_id, dry) ==
    IF max_update_id >= offset /\ ~dry
    THEN set_meta(m, "telegram_update_offset", str(max_update_id + 1))
    ELSE m

sync_telegram_commands_finally(updates, m, st, dry, net) ==
    LET after(offset, r) ==
            [meta |-> offset_after_loop(r.meta, offset, r.max_update_id, dry),
             sent |-> r.sent, raised |-> r.raised, outcomes |-> r.outcomes]
        from(offset) ==
            after(offset, sync_loop(updates, 1, m, st, dry, net, offset - 1, <<>>, <<>>))
    IN IF updates = <<>>
       THEN [meta |-> m, sent |-> <<>>, raised |-> FALSE, outcomes |-> <<>>]
       ELSE from(stored_offset(m))

\* sync_telegram_commands on the batch `updates`: [meta, sent, raised, outcomes]
sync_telegram_commands(updates, m, st, dry, net) ==
    LET after(offset, r) ==
            IF r.raised
            THEN [meta |-> r.meta, sent |-> r.sent, raised |-> TRUE,
                  outcomes |-> r.outcomes]
            ELSE [meta |-> offset_after_loop(r.meta, offset, r.max_update_id, dry),
                  sent |-> r.sent, raised |-> FALSE, outcomes |-> r.outcomes]
        from(offset) ==
            after(offset, sync_loop(updates, 1, m, st, dry, net, offset - 1, <<>>, <<>>))
    IN IF updates = <<>>
       THEN [meta |-> m, sent |-> <<>>, raised |-> FALSE, outcomes |-> <<>>]
       ELSE from(stored_offset(m))

-----------------------------------------------------------------------------
(* poll_once, handle_failure and the sleeps of run_forever (monitor.py) *)

\* the for loop over new_listings: [sent, raised]
RECURSIVE notify_loop(_, _, _)
notify_loop(listings, net, sent_) ==
    IF listings = <<>> THEN [sent |-> sent_, raised |-> FALSE]
    ELSE LET r == send_new_listing(Head(listings), net)
         IN IF r.raised THEN [sent |-> sent_ \o r.sent, raised |-> TRUE]
            ELSE notify_loop(Tail(listings), net - Len(r.sent), sent_ \o r.sent)

\* the listings of the pages fetched, concatenated
RECURSIVE extend_all(_)
extend_all(pages) ==
    IF pages = <<>> THEN <<>> ELSE Head(pages).listings \o extend_all(Tail(pages))

\* the fetch loop of poll_once has no handler: a fetch that raises ends poll_once
fetch_raises_never(pages) == FALSE

fetch_raises(pages) == \E i \in 1..Len(pages) : ~pages[i].ok

\* the listings fetched before the first fetch that failed
RECURSIVE fetched_before_failure(_)
fetched_before_failure(pages) ==
    IF pages = <<>> \/ ~Head(pages).ok THEN <<>>
    ELSE Head(pages).listings \o fetched_before_failure(Tail(pages))

\* poll_once, had it notified every listing that passes the filters
poll_after_fetch_notifies_all(rows, m, st, listings, t, dry, net) ==
    IF ~effective_filters_ok(m)
    THEN [seen |-> rows, meta |-> m, new_items |-> <<>>, sent |-> <<>>,
          raised |-> TRUE, filtered |-> <<>>]
    ELSE LET filtered_listings == _apply_filters(listings, m, st)
             f == filter_new(rows, m, filtered_listings, t)
             n == IF dry THEN [sent |-> <<>>, raised |-> FALSE]
                  ELSE notify_loop(filtered_listings, net, <<>>)
         IN [seen |-> f.seen, meta |-> f.meta, new_items |-> f.new_items,
             sent |-> n.sent, raised |-> n.raised, filtered |-> filtered_listings]

\* poll_once after the fetches: [seen, meta, new_items, sent, raised]
poll_after_fetch(rows, m, st, listings, t, dry, net) ==
    IF ~effective_filters_ok(m)
    THEN [seen |-> rows, meta |-> m, new_items |-> <<>>, sent |-> <<>>,
          raised |-> TRUE, filtered |-> <<>>]
    ELSE LET filtered_listings == _apply_filters(listings, m, st)
             f == filter_new(rows, m, filtered_listings, t)
             n == IF dry THEN [sent |-> <<>>, raised |-> FALSE]
                  ELSE notify_loop(f.new_items, net, <<>>)
         IN [seen |-> f.seen, meta |-> f.meta, new_items |-> f.new_items,
             sent |-> n.sent, raised |-> n.raised, filtered |-> filtered_listings]

\* handle_failure: [meta, sent, raised, failure_count]
handle_failure(m, st, t, dry, net) ==
    LET count == register_failure_count(m)
        m1 == register_failure(m)
        a == should_send_error_alert(m1, t, st.error_alert_cooldown_minutes)
        s == send_error_alert(count, net)
    IN IF count < st.error_alert_threshold
       THEN [meta |-> m1, sent |-> <<>>, raised |-> FALSE, failure_count |-> count]
       ELSE IF ~a.result
       THEN [meta |-> a.meta, sent |-> <<>>, raised |-> FALSE, failure_count |-> count]
       ELSE IF dry
       THEN [meta |-> a.meta, sent |-> <<>>, raised |-> FALSE, failure_count |-> count]
       ELSE [meta |-> a.meta, sent |-> s.sent, raised |-> s.raised,
             failure_count |-> count]

RECURSIVE pow2(_)
pow2(n) == IF n = 0 THEN 1 ELSE 2 * pow2(n - 1)

\* backoff = min(300, 2 ** min(failure_count, 8))
backoff(failure_count_) == Min(300, pow2(Min(failure_count_, 8)))

\* _compute_sleep, had it not kept the sleep at 30 seconds or more
_compute_sleep_unclamped(interval, jitter, delta) ==
    IF jitter = 0 THEN interval ELSE interval + delta

\* _compute_sleep with random.randint(-jitter, jitter) = delta
_compute_sleep(interval, jitter, delta) ==
    IF jitter = 0 THEN interval ELSE Max(30, interval + delta)

-----------------------------------------------------------------------------
(* The environment: search pages, Telegram users, the network *)

UniqueFingerprints(p) ==
    \A i, j \in 1..Len(p) : fingerprint(p[i]) = fingerprint(p[j]) => i = j

\* what parse_listings can return for a page of `listings`: no fingerprint twice
Pages(listings) == { p \in SeqsUpTo(listings, MaxPage) : UniqueFingerprints(p) }

\* fetch_listings of one source: it raises, or returns a page
FetchResults(listings) ==
    {[ok |-> FALSE, listings |-> <<>>]}
        \cup {[ok |-> TRUE, listings |-> p] : p \in Pages(listings)}

\* the listings on the pages of the loop: two of them are one listing
LoopListings == { l \in Listings : l.title = <<"T", "2">> }

Texts ==
    { <<"/setmaxprice", " ", "5", "0", "0">>,
      <<"/SetMaxPrice", "@", "bot", " ", " ", "4", "2", "0">>,
      <<"/setmaxprice", " ", "a">>,
      <<"/setmaxprice", " ", "^2">>,
      <<"/clearmaxprice">>,
      <<"/setkeywords", " ", "T", ",", " ", "u", "2", ",", "t">>,
      <<"/setkeywords", " ", ",">>,
      <<"/clearkeywords">>,
      <<"/showfilters">>,
      <<"/help">>,
      <<"/foo">>,
      <<"h", "i">> }

\* what an update can carry: no message, or a text from a chat
MessagesOf(texts) ==
    {None} \cup {Some(Message(<<"1">>, t)) : t \in texts}
           \cup {Some(Message(<<"9">>, t)) : t \in texts \cap
                    {<<"/setmaxprice", " ", "5", "0", "0">>, <<"/clearkeywords">>}}

CommandMessages == MessagesOf(Texts)

HistInit ==
    [op |-> "init",
     returned |-> [f \in Fingerprints |-> 0],  \* times filter_new returned f
     arg |-> <<>>,            \* the list given to the last filter_new
     before |-> {},           \* the fingerprints seen before the last filter_new
     fetch_failed |-> FALSE,  \* a fetch of the last poll_once failed
     fetched |-> <<>>,        \* the listings it had fetched before that
     count_returned |-> 0,    \* what the last register_failure returned
     batch |-> <<>>,          \* the updates of the last sync_telegram_commands
     outcomes |-> <<>>,       \* what became of each update of the batch
     alert_at |-> None,       \* clock of the last error alert emitted
     dry_seen |-> {},         \* fingerprints marked seen by dry runs
     streak |-> None,         \* failed cycles since the last successful one
     hb_before |-> None,      \* last_heartbeat_at before the last should_send_heartbeat
     hb_at |-> 0,             \* clock of the last should_send_heartbeat
     hb_calls |-> 0,          \* calls of should_send_heartbeat, counted to 2
     hb_true_at |-> None,     \* clock of the last true should_send_heartbeat
     hb_true_prev |-> None,   \* clock of the true should_send_heartbeat before it
     html |-> None,           \* the document given to parse_listings
     raised |-> FALSE,        \* the last parse_listings raised
     notified |-> <<>>,       \* calls of send_new_listing per fingerprint, to 2
     handled |-> {}]          \* ids of the commands handled outside dry runs

InitWith(S) ==
    /\ seen = <<>>
    /\ meta = <<>>
    /\ clock = 0
    /\ pc = "sync"
    /\ dry_run \in BOOLEAN
    /\ failure_count = 0
    /\ inbox = <<>>
    /\ next_update_id = 1
    /\ new_listings = <<>>
    /\ hb_result = FALSE
    /\ sent = <<>>
    /\ sleeps = <<>>
    /\ settings \in S
    /\ hist = HistInit

-----------------------------------------------------------------------------
(* Calls of the store and of the service *)

\* time passes
Tick(max) ==
    /\ clock < max
    /\ clock' = clock + 1
    /\ hist' = [hist EXCEPT !.op = "tick"]
    /\ UNCHANGED <<seen, meta, pc, dry_run, failure_count, inbox, next_update_id,
                   new_listings, hb_result, sent, sleeps, settings>>

DrySeen(old, new_items, dry) ==
    IF dry THEN old \cup {fingerprint(new_items[i]) : i \in 1..Len(new_items)} ELSE old

HistFilterNew(listings, new_items, dry) ==
    [hist EXCEPT
        !.op = "filter_new",
        !.arg = listings,
        !.before = DOMAIN seen,
        !.returned = [f \in Fingerprints |->
            @[f] + Cardinality({i \in 1..Len(new_items) : fingerprint(new_items[i]) = f})],
        !.dry_seen = DrySeen(@, new_items, dry)]

\* StateStore.filter_new(listings)
FilterNewCall ==
    \E listings \in SeqsUpTo(StoreListings, MaxLen) :
        LET f == filter_new(seen, meta, listings, clock) IN
        /\ seen' = f.seen
        /\ meta' = f.meta
        /\ new_listings' = f.new_items
        /\ hist' = HistFilterNew(listings, f.new_items, FALSE)
        /\ UNCHANGED <<clock, pc, dry_run, failure_count, inbox, next_update_id,
                       hb_result, sent, sleeps, settings>>

HistHeartbeat(r) ==
    [hist EXCEPT
        !.op = "should_send_heartbeat",
        !.hb_before = get_meta(meta, "last_heartbeat_at"),
        !.hb_at = clock,
        !.hb_calls = Min(2, @ + 1),
        !.hb_true_at = IF r.result THEN Some(clock) ELSE @,
        !.hb_true_prev = IF r.result THEN hist.hb_true_at ELSE @]

\* StateStore.should_send_heartbeat(interval_hours)
HeartbeatCall ==
    LET r == should_send_heartbeat(meta, clock, settings.heartbeat_interval_hours) IN
    /\ meta' = r.meta
    /\ hb_result' = r.result
    /\ hist' = HistHeartbeat(r)
    /\ UNCHANGED <<seen, clock, pc, dry_run, failure_count, inbox, next_update_id,
                   new_listings, sent, sleeps, settings>>

\* a Telegram user (or the server) adds an update for the bot
UserSends(messages, last_id) ==
    /\ Len(inbox) < MaxInbox
    /\ next_update_id <= last_id
    /\ \E message \in messages :
           inbox' = Append(inbox, Update(next_update_id, message))
    /\ next_update_id' = next_update_id + 1
    /\ hist' = [hist EXCEPT !.op = "user_sends"]
    /\ UNCHANGED <<seen, meta, clock, pc, dry_run, failure_count, new_listings,
                   hb_result, sent, sleeps, settings>>

\* sync_telegram_commands when getUpdates answers `answer` and `net` posts succeed:
\* [meta, sent, raised, inbox, batch, outcomes]
SyncResult(answer, net) ==
    LET after(offset, updates, r) ==
            [meta |-> r.meta, sent |-> r.sent, raised |-> r.raised,
             inbox |-> SelectSeq(inbox, LAMBDA u : u.update_id >= offset),
             batch |-> updates, outcomes |-> r.outcomes]
        with(offset, updates) ==
            after(offset, updates,
                  sync_telegram_commands(updates, meta, settings, dry_run, net))
        from(offset) ==
            with(offset, IF answer = "ok"
                         THEN get_updates(inbox, offset, TelegramLimit)
                         ELSE <<>>)
    IN IF answer = "raise"
       THEN [meta |-> meta, sent |-> <<>>, raised |-> TRUE, inbox |-> inbox,
             batch |-> <<>>, outcomes |-> <<>>]
       ELSE from(stored_offset(meta))

HistSync(r) ==
    [hist EXCEPT !.op = "sync_telegram_commands", !.batch = r.batch,
                 !.outcomes = r.outcomes,
                 !.handled = IF dry_run THEN @
                             ELSE @ \cup { r.batch[i].update_id :
                                      i \in { j \in 1..Len(r.outcomes) :
                                                 r.outcomes[j] = "handled" } }]

\* MonitorService.sync_telegram_commands(dry_run)
SyncCall ==
    \E answer \in {"raise", "not_ok", "ok"}, net \in 0..Len(inbox) :
        \E r \in {SyncResult(answer, net)} :
        /\ meta' = r.meta
        /\ sent' = r.sent
        /\ inbox' = r.inbox
        /\ hist' = HistSync(r)
        /\ UNCHANGED <<seen, clock, pc, dry_run, failure_count, next_update_id,
                       new_listings, hb_result, sleeps, settings>>

-----------------------------------------------------------------------------
(* run_forever (monitor.py) *)

\* the try block, first call: self.sync_telegram_commands(dry_run=dry_run)
SyncTelegramCommands ==
    /\ pc = "sync"
    /\ \E answer \in {"raise", "not_ok", "ok"}, net \in 0..Len(inbox) :
        \E r \in {SyncResult(answer, net)} :
        /\ meta' = r.meta
        /\ sent' = r.sent
        /\ inbox' = r.inbox
        /\ hist' = HistSync(r)
        /\ pc' = IF r.raised THEN "failure" ELSE "heartbeat"
    /\ sleeps' = <<>>
    /\ UNCHANGED <<seen, clock, dry_run, failure_count, next_update_id,
                   new_listings, hb_result, settings>>

\* self.maybe_send_scheduled_heartbeat(dry_run=dry_run)
MaybeSendScheduledHeartbeat ==
    /\ pc = "heartbeat"
    /\ IF ~settings.heartbeat_enabled
       THEN /\ pc' = "poll"
            /\ sent' = <<>>
            /\ hist' = [hist EXCEPT !.op = "maybe_send_scheduled_heartbeat"]
            /\ UNCHANGED <<meta, hb_result>>
       ELSE \E r \in {should_send_heartbeat(meta, clock,
                                             settings.heartbeat_interval_hours)} :
            /\ meta' = r.meta
            /\ hb_result' = r.result
            /\ hist' = [hist EXCEPT !.op = "maybe_send_scheduled_heartbeat"]
            /\ IF ~r.result \/ dry_run
               THEN sent' = <<>> /\ pc' = "poll"
               ELSE \E net \in 0..Len(telegram_chat_ids) :
                        \E h \in {send_heartbeat(net)} :
                        /\ sent' = h.sent
                        /\ pc' = IF h.raised THEN "failure" ELSE "poll"
    /\ UNCHANGED <<seen, clock, dry_run, failure_count, inbox, next_update_id,
                   new_listings, sleeps, settings>>

\* total_count, new_count = self.poll_once(dry_run=dry_run)
PollOnce(fetch_results) ==
    /\ pc = "poll"
    /\ \E pages \in [1..NumSources -> fetch_results] :
        IF fetch_raises(pages)
        THEN \* fetch_listings raised: nothing after the fetch loop runs
             /\ pc' = "failure"
             /\ sent' = <<>>
             /\ hist' = [hist EXCEPT !.op = "poll_once", !.fetch_failed = TRUE,
                                     !.fetched = fetched_before_failure(pages)]
             /\ UNCHANGED <<seen, meta, new_listings>>
        ELSE \E net \in 0..(Len(telegram_chat_ids) * Len(extend_all(pages))) :
             \E r \in {poll_after_fetch(seen, meta, settings, extend_all(pages),
                                         clock, dry_run, net)} :
             /\ seen' = r.seen
             /\ meta' = r.meta
             /\ new_listings' = r.new_items
             /\ sent' = r.sent
             /\ pc' = IF r.raised THEN "failure" ELSE "success"
             /\ hist' = [hist EXCEPT
                            !.op = "poll_once",
                            !.fetch_failed = \E i \in 1..NumSources : ~pages[i].ok,
                            !.fetched = fetched_before_failure(pages),
                            !.dry_seen = DrySeen(@, r.new_items, dry_run)]
    /\ UNCHANGED <<clock, dry_run, failure_count, inbox, next_update_id,
                   hb_result, sleeps, settings>>

\* failure_count = 0; self.register_success()
RegisterSuccess ==
    /\ pc = "success"
    /\ failure_count' = 0
    /\ meta' = reset_failure_count(meta)
    /\ sent' = <<>>
    /\ pc' = "sleep"
    /\ hist' = [hist EXCEPT !.op = "register_success", !.streak = Some(0)]
    /\ UNCHANGED <<seen, clock, dry_run, inbox, next_update_id, new_listings,
                   hb_result, sleeps, settings>>

\* an except block: failure_count += 1; self.handle_failure(exc, dry_run=dry_run).
\* An exception of handle_failure leaves run_forever
HandleFailure ==
    /\ pc = "failure"
    /\ failure_count < MaxFailures
    /\ register_failure_count(meta) <= MaxFailures
    /\ failure_count' = failure_count + 1
    /\ \E net \in 0..Len(telegram_chat_ids) :
        \E r \in {handle_failure(meta, settings, clock, dry_run, net)} :
        /\ meta' = r.meta
        /\ sent' = r.sent
        /\ pc' = IF r.raised THEN "crashed" ELSE "backoff"
        /\ hist' = [hist EXCEPT
              !.op = "handle_failure",
              !.count_returned = r.failure_count,
              !.streak = IF @ = None THEN None ELSE Some(@[1] + 1),
              !.alert_at = IF r.sent # <<>> THEN Some(clock) ELSE @]
    /\ UNCHANGED <<seen, clock, dry_run, inbox, next_update_id, new_listings,
                   hb_result, sleeps, settings>>

\* time.sleep(seconds): the clock moves on, by less than a tick (0) or more
Sleep(kind, seconds) ==
    /\ sleeps' = Append(sleeps, [kind |-> kind, seconds |-> seconds])
    /\ \E d \in 0..MaxAdvance : clock + d <= MaxClock /\ clock' = clock + d

\* backoff = min(300, 2 ** min(failure_count, 8)); time.sleep(backoff)
BackoffSleep ==
    /\ pc = "backoff"
    /\ Sleep("backoff", backoff(failure_count))
    /\ sent' = <<>>
    /\ pc' = "sleep"
    /\ hist' = [hist EXCEPT !.op = "backoff_sleep"]
    /\ UNCHANGED <<seen, meta, dry_run, failure_count, inbox, next_update_id,
                   new_listings, hb_result, settings>>

\* sleep_seconds = _compute_sleep(...); time.sleep(sleep_seconds); next iteration
IntervalSleep ==
    /\ pc = "sleep"
    /\ \E delta \in (0 - settings.poll_jitter_seconds)..settings.poll_jitter_seconds :
           Sleep("interval", _compute_sleep(settings.poll_interval_seconds,
                                            settings.poll_jitter_seconds, delta))
    /\ sent' = <<>>
    /\ pc' = "sync"
    /\ hist' = [hist EXCEPT !.op = "interval_sleep"]
    /\ UNCHANGED <<seen, meta, dry_run, failure_count, inbox, next_update_id,
                   new_listings, hb_result, settings>>

\* the process ends (an exception left run_forever, or it was stopped) and is
\* started again on the same database, with or without --dry-run
Restart ==
    /\ pc \in {"crashed", "sleep"}
    /\ pc' = "sync"
    /\ failure_count' = 0
    /\ dry_run' \in BOOLEAN
    /\ sleeps' = <<>>
    /\ sent' = <<>>
    /\ hist' = [hist EXCEPT !.op = "restart"]
    /\ UNCHANGED <<seen, meta, clock, inbox, next_update_id, new_listings,
                   hb_result, settings>>

-----------------------------------------------------------------------------
(* Specifications *)

\* HEARTBEAT_ENABLED is off unless set; alerts from the second failure on
LoopSettings == { SettingsOf(None, <<>>, FALSE, 2, 2, 2, 30, 1) }

Init == InitWith(LoopSettings)

Next ==
    \/ SyncTelegramCommands
    \/ MaybeSendScheduledHeartbeat
    \/ PollOnce(FetchResults(LoopListings))
    \/ RegisterSuccess
    \/ HandleFailure
    \/ BackoffSleep
    \/ IntervalSleep
    \/ Restart

\* run_forever, with restarts
Spec == Init /\ [][Next]_vars

\* heartbeat on and due every tick, an alert at every failure
DrySettings == { SettingsOf(None, <<>>, TRUE, 1, 1, 1, 30, 0) }

InitDry == InitWith(DrySettings)

DryMessages == { Some(Message(<<"1">>, <<"/showfilters">>)) }

\* this specification stops the clock at MaxDryClock and the failure counter
\* at MaxDryFailures
DryBound ==
    /\ clock' <= MaxDryClock
    /\ failures_key \in DOMAIN meta' => int(meta'[failures_key]) <= MaxDryFailures

NextDry ==
    \/ UserSends(DryMessages, MaxDryUpdateId) /\ DryBound
    \/ SyncTelegramCommands /\ DryBound
    \/ MaybeSendScheduledHeartbeat /\ DryBound
    \/ PollOnce(FetchResults(LoopListings)) /\ DryBound
    \/ RegisterSuccess /\ DryBound
    \/ HandleFailure /\ DryBound
    \/ BackoffSleep /\ DryBound
    \/ IntervalSleep /\ DryBound
    \/ Restart /\ DryBound

\* run_forever with commands, heartbeats and alerts, with and without --dry-run
SpecDry == InitDry /\ [][NextDry]_vars

InitStore == InitWith({SettingsOf(None, <<>>, FALSE, 2, 2, 2, 30, 1)}) /\ ~dry_run

NextStore == FilterNewCall \/ Tick(MaxStoreTicks)

\* calls of StateStore.filter_new as time passes
SpecStore == InitStore /\ [][NextStore]_vars

CallSettings ==
    { SettingsOf(None, <<>>, TRUE, i, 2, 2, 30, 1) : i \in 1..MaxInterval }

InitHeartbeat == InitWith(CallSettings)

NextHeartbeat == HeartbeatCall \/ Tick(MaxCallClock)

\* calls of StateStore.should_send_heartbeat as time passes
SpecHeartbeat == InitHeartbeat /\ [][NextHeartbeat]_vars

CommandSettings ==
    { SettingsOf(None, <<>>, FALSE, 2, 2, 2, 30, 1),
      SettingsOf(Some(450), << <<"u", "1">> >>, FALSE, 2, 2, 2, 30, 1) }

InitCmd == InitWith(CommandSettings)

NextCmd == UserSends(CommandMessages, MaxUpdateId) \/ SyncCall

\* calls of MonitorService.sync_telegram_commands as users send updates
SpecCmd == InitCmd /\ [][NextCmd]_vars

-----------------------------------------------------------------------------
(* Claims *)

\* the listings of arg from position i on whose fingerprint is neither in
\* `before` nor at an earlier position of arg
RECURSIVE FirstUnseen(_, _, _)
FirstUnseen(arg, before, i) ==
    IF i > Len(arg) THEN <<>>
    ELSE (IF /\ fingerprint(arg[i]) \notin before
             /\ \A j \in 1..(i - 1) : fingerprint(arg[j]) # fingerprint(arg[i])
          THEN <<arg[i]>> ELSE <<>>) \o FirstUnseen(arg, before, i + 1)

\* C1: over all the calls of filter_new on one store every fingerprint is
\* returned at most once, and a call returns exactly the listings of its input
\* whose fingerprint was not seen before the call, each at its first occurrence.
C1_FingerprintReturnedOnce ==
    /\ \A f \in Fingerprints : hist.returned[f] <= 1
    /\ hist.op = "filter_new" =>
           new_listings = FirstUnseen(hist.arg, hist.before, 1)

\* a call whose input holds one fingerprint twice, under two titles, after an
\* earlier call returned another fingerprint
C1_Witness ==
    /\ hist.op = "filter_new"
    /\ Len(hist.arg) = 2
    /\ hist.arg[1] # hist.arg[2]
    /\ fingerprint(hist.arg[1]) = fingerprint(hist.arg[2])
    /\ new_listings = <<hist.arg[1]>>
    /\ hist.before # {}

\* the persisted consecutive-failure counter, absent counting as 0
StoredFailures(m) == IF failures_key \in DOMAIN m THEN int(m[failures_key]) ELSE 0

\* C2: a failed cycle never ends run_forever: no exception leaves the loop, also
\* when handle_failure has to send an error alert.
C2_LoopNeverTerminates == pc # "crashed"

\* C3: an iteration of run_forever waits once: at the start of the next cycle
\* the iteration before it has slept exactly once, its backoff after a failed
\* cycle and its interval with jitter after a successful one.
C3_OneWaitPerIteration ==
    (pc = "sync" /\ hist.op = "interval_sleep") => Len(sleeps) = 1

\* C5: a poll_once in which a fetch fails changes neither the seen set nor the
\* meta table (last_poll_at included), returns and posts nothing, and the cycle
\* goes to the failure handling.
C5_FetchFailureAbortsCycle ==
    [][ (pc = "poll" /\ hist'.op = "poll_once" /\ hist'.fetch_failed) =>
            /\ seen' = seen
            /\ meta' = meta
            /\ new_listings' = new_listings
            /\ sent' = <<>>
            /\ pc' = "failure" ]_vars

\* a failed poll_once whose earlier fetch had brought a listing not seen yet
C5_Witness ==
    /\ hist.op = "poll_once"
    /\ hist.fetch_failed
    /\ pc = "failure"
    /\ hist.fetched # <<>>
    /\ fingerprint(hist.fetched[1]) \notin DOMAIN seen

\* C7: the persisted counter is "0" after a successful cycle; a failed cycle
\* adds one to it (absent counting as 0) and register_failure returns the new
\* value; after k failed cycles following a success it is k.
C7_FailureCounterTracksStreak ==
    [][ /\ (pc = "success" /\ pc' = "sleep") =>
                get_meta(meta', failures_key) = Some(<<"0">>)
        /\ (pc = "failure" /\ pc' \in {"backoff", "crashed"}) =>
                /\ StoredFailures(meta') = StoredFailures(meta) + 1
                /\ hist'.count_returned = StoredFailures(meta')
        /\ hist'.streak # None => StoredFailures(meta') = hist'.streak[1] ]_vars

\* two failed cycles after a successful one
C7_Witness ==
    /\ hist.op = "handle_failure"
    /\ hist.streak = Some(2)
    /\ get_meta(meta, failures_key) = Some(<<"2">>)

\* C6: a dry run posts nothing to Telegram in any step, yet its poll_once
\* persists every listing that passes the filter as seen, and no later cycle
\* notifies a listing that a dry run marked seen.
C6_DryRunPostsNothingButMarksSeen ==
    /\ dry_run => sent = <<>>
    /\ \A i \in 1..Len(sent) :
           sent[i].kind = "new_listing" => sent[i].about \notin hist.dry_seen
    /\ (dry_run /\ hist.op = "poll_once" /\ pc = "success") =>
           LET passed == _apply_filters(hist.fetched, meta, settings)
           IN \A i \in 1..Len(passed) : fingerprint(passed[i]) \in DOMAIN seen

\* a cycle that is no dry run fetches a listing a dry run had marked seen
C6_Witness ==
    /\ ~dry_run
    /\ hist.op = "poll_once"
    /\ pc = "success"
    /\ hist.fetched # <<>>
    /\ fingerprint(hist.fetched[1]) \in hist.dry_seen
    /\ sent = <<>>

IsAlert(posts) == \E i \in 1..Len(posts) : posts[i].kind = "error_alert"

\* C8: a failed cycle that is no dry run emits an error alert exactly when the
\* counter after its increment has reached the threshold and no alert timestamp
\* is recorded or the cooldown has passed since the recorded one; two alerts
\* emitted are at least one cooldown apart.
C8_AlertGatedByThresholdAndCooldown ==
    [][ (pc = "failure" /\ pc' \in {"backoff", "crashed"} /\ ~dry_run) =>
            LET last == get_meta(meta, "last_error_alert_at")
                due == /\ StoredFailures(meta') >= settings.error_alert_threshold
                       /\ \/ last = None
                          \/ clock - fromisoformat(last[1])
                                 >= settings.error_alert_cooldown_minutes
            IN /\ IsAlert(sent') <=> due
               /\ (IsAlert(sent') /\ hist.alert_at # None) =>
                      clock - hist.alert_at[1] >= settings.error_alert_cooldown_minutes
    ]_vars

\* a failure at the threshold whose alert the cooldown holds back, after an
\* alert was emitted
C8_Witness ==
    /\ hist.op = "handle_failure"
    /\ ~dry_run
    /\ sent = <<>>
    /\ StoredFailures(meta) >= settings.error_alert_threshold
    /\ hist.alert_at # None
    /\ clock > hist.alert_at[1]

\* C9: should_send_heartbeat records now and returns false when no timestamp
\* is stored, records now and returns true when the stored one is at least the
\* interval old, and otherwise returns false and leaves it; so two true results
\* are at least one interval apart and the first call ever returns false.
C9_HeartbeatOncePerInterval ==
    LET key == "last_heartbeat_at"
        last == hist.hb_before
        now == hist.hb_at
        interval == settings.heartbeat_interval_hours
    IN /\ hist.op = "should_send_heartbeat" =>
              IF last = None
              THEN ~hb_result /\ get_meta(meta, key) = Some(isoformat(now))
              ELSE IF now - fromisoformat(last[1]) >= interval
              THEN hb_result /\ get_meta(meta, key) = Some(isoformat(now))
              ELSE ~hb_result /\ get_meta(meta, key) = last
       /\ hist.hb_true_prev # None =>
              hist.hb_true_at[1] - hist.hb_true_prev[1] >= interval
       /\ hist.hb_calls = 1 => ~hb_result

\* a second true result, exactly one interval after the first
C9_Witness ==
    /\ hist.op = "should_send_heartbeat"
    /\ hb_result
    /\ hist.hb_true_prev # None
    /\ hist.hb_at - hist.hb_true_prev[1] = settings.heartbeat_interval_hours

\* C4: the stored offset passes only updates that were processed: an update
\* of the fetched batch below the stored offset was handled to the end or
\* ignored, never one whose handling failed or was not reached.
C4_OffsetOnlyPastProcessed ==
    \A i \in 1..Len(hist.batch) :
        hist.batch[i].update_id < stored_offset(meta) =>
            /\ i <= Len(hist.outcomes)
            /\ hist.outcomes[i] \in {"handled", "ignored"}

\* a batch of a command and an update that is none, both passed by the offset
C4_Witness ==
    /\ hist.op = "sync_telegram_commands"
    /\ ~dry_run
    /\ hist.outcomes = <<"handled", "ignored">>
    /\ stored_offset(meta) = hist.batch[2].update_id + 1

\* the command word and the argument of the text of an update
CommandOf(update) ==
    lower(split(partition(strip(update.message[1].text))[1], "@")[1])

ArgOf(update) == strip(partition(strip(update.message[1].text))[2])

\* the positions of the last batch whose command wrote the store (the write
\* comes before the reply, so a failed reply leaves it written)
Reached(i) == i <= Len(hist.outcomes) /\ hist.outcomes[i] \in {"handled", "failed"}

IsPriceWrite(i) ==
    /\ Reached(i)
    /\ \/ CommandOf(hist.batch[i]) = <<"/setmaxprice">> /\ isdigit(ArgOf(hist.batch[i]))
       \/ CommandOf(hist.batch[i]) = <<"/clearmaxprice">>

IsKeywordWrite(i) ==
    /\ Reached(i)
    /\ \/ /\ CommandOf(hist.batch[i]) = <<"/setkeywords">>
          /\ keyword_items(ArgOf(hist.batch[i])) # <<>>
       \/ CommandOf(hist.batch[i]) = <<"/clearkeywords">>

IsLast(P(_), i) == P(i) /\ \A j \in (i + 1)..Len(hist.batch) : ~P(j)

\* the reply to the update at position i among the posts of the step
ReplyTo(i) == sent[Cardinality({k \in 1..i : hist.outcomes[k] # "ignored"})]

\* after the last sync: the effective filter is what its last set or clear
\* command asked for, and /showfilters right after /setmaxprice N reports N
FilterFollowsCommands ==
    \A i \in 1..Len(hist.batch) :
        LET update == hist.batch[i] IN
        /\ (IsLast(IsPriceWrite, i) /\ CommandOf(update) = <<"/setmaxprice">>
                /\ int_ok(ArgOf(update))) =>
               effective_max_price(meta, settings) = Some(int(ArgOf(update)))
        /\ (IsLast(IsPriceWrite, i) /\ CommandOf(update) = <<"/clearmaxprice">>) =>
               effective_max_price(meta, settings) = settings.filter_max_price_eur
        /\ (IsLast(IsKeywordWrite, i) /\ CommandOf(update) = <<"/setkeywords">>) =>
               effective_keywords(meta, settings)
                   = fromkeys(keyword_items(ArgOf(update)))
        /\ (IsLast(IsKeywordWrite, i) /\ CommandOf(update) = <<"/clearkeywords">>) =>
               effective_keywords(meta, settings) = settings.filter_include_keywords
        /\ (/\ i > 1
            /\ i <= Len(hist.outcomes)
            /\ hist.outcomes[i] = "handled"
            /\ CommandOf(update) = <<"/showfilters">>
            /\ IsPriceWrite(i - 1)
            /\ CommandOf(hist.batch[i - 1]) = <<"/setmaxprice">>
            /\ int_ok(ArgOf(hist.batch[i - 1]))) =>
               /\ sent # <<>>
               /\ contains(ReplyTo(i).about,
                           <<"Max price: ", "<", "=", " ">>
                               \o str(int(ArgOf(hist.batch[i - 1]))) \o <<" ", "€">>)

\* C10 as claimed: after any commands, in a dry run too, the effective filter
\* follows the last set or clear command.
C10_FilterFollowsCommandsAlways ==
    hist.op = "sync_telegram_commands" => FilterFollowsCommands

\* C10: when the run is no dry run, the effective max price after
\* /setmaxprice N is N and /showfilters reports it, after /clearmaxprice it is
\* the static value (or none); the keyword override is set and cleared alike.
C10_FilterFollowsCommands ==
    (hist.op = "sync_telegram_commands" /\ ~dry_run) => FilterFollowsCommands

\* /setmaxprice then /clearmaxprice in a run with a static max price
C10_Witness ==
    /\ hist.op = "sync_telegram_commands"
    /\ ~dry_run
    /\ Len(hist.batch) = 2
    /\ hist.outcomes = <<"handled", "handled">>
    /\ CommandOf(hist.batch[1]) = <<"/setmaxprice">>
    /\ CommandOf(hist.batch[2]) = <<"/clearmaxprice">>
    /\ settings.filter_max_price_eur = Some(450)
    /\ effective_max_price(meta, settings) = Some(450)

-----------------------------------------------------------------------------
(* Commands only from the configured chats *)

FromConfiguredChat(update) ==
    /\ update.message # None
    /\ \E i \in 1..Len(telegram_chat_ids) :
           telegram_chat_ids[i] = update.message[1].chat_id

ConfiguredUpdates(batch) ==
    Cardinality({i \in 1..Len(batch) : FromConfiguredChat(batch[i])})

\* C11: an update from a chat that is not configured is ignored by
\* sync_telegram_commands whatever its text: no reply goes to its chat, the step
\* sends at most one reply per update of a configured chat, and a batch with no
\* update of a configured chat leaves both filter overrides as they were.
C11_OnlyConfiguredChatsCommand ==
    [][ hist'.op = "sync_telegram_commands" =>
          /\ \A i \in 1..Len(hist'.outcomes) :
                 ~FromConfiguredChat(hist'.batch[i]) => hist'.outcomes[i] = "ignored"
          /\ \A i \in 1..Len(sent') :
                 \E j \in 1..Len(telegram_chat_ids) : telegram_chat_ids[j] = sent'[i].to
          /\ Len(sent') <= ConfiguredUpdates(hist'.batch)
          /\ ConfiguredUpdates(hist'.batch) = 0 =>
                 /\ get_meta(meta', "filter_max_price_override")
                        = get_meta(meta, "filter_max_price_override")
                 /\ get_meta(meta', "filter_keywords_override")
                        = get_meta(meta, "filter_keywords_override")
                 /\ sent' = <<>>
      ]_vars

\* /setmaxprice 500 from chat 9 has been fetched and passed by the offset
C11_Witness ==
    /\ hist.op = "sync_telegram_commands"
    /\ ~dry_run
    /\ Len(hist.batch) = 1
    /\ hist.batch[1].message = Some(Message(<<"9">>, <<"/setmaxprice", " ", "5", "0", "0">>))
    /\ hist.outcomes = <<"ignored">>
    /\ stored_offset(meta) = hist.batch[1].update_id + 1
    /\ get_meta(meta, "filter_max_price_override") = None
    /\ sent = <<>>

-----------------------------------------------------------------------------
(* Calls of _apply_filters under static and overridden filters *)

\* config._get_keywords on the raw value of FILTER_INCLUDE_KEYWORDS
_get_keywords(raw_value) ==
    IF strip(raw_value) = <<>> THEN <<>>
    ELSE fromkeys(keyword_items(strip(raw_value)))

RawKeywords == { <<>>, <<"A">>, <<"T", ",", " ", "u", "2", ",", "t">> }

FilterSettings ==
    { SettingsOf(p, _get_keywords(raw), FALSE, 2, 2, 2, 30, 1) :
        p \in {None, Some(420), Some(500)}, raw \in RawKeywords }

\* the listings handed to _apply_filters: those of the pages that differ in
\* more than the title or a price of 0, and one at 421
FilterListings ==
    { l \in Listings : l.price_eur # Some(0) /\ l.title # <<"T", "2">> }
        \cup { Listing(<<"S">>, <<"u", "2">>, Some(421), None, None, None) }

FilterTexts ==
    { <<"/setmaxprice", " ", "5", "0", "0">>,
      <<"/SetMaxPrice", "@", "bot", " ", " ", "4", "2", "0">>,
      <<"/setmaxprice", " ", "^2">>,
      <<"/clearmaxprice">>,
      <<"/setkeywords", " ", "B">>,
      <<"/clearkeywords">> }

InitFilter == InitWith(FilterSettings) /\ ~dry_run

\* a command of a configured chat is handled (its reply is delivered)
FilterCommand ==
    \E text \in FilterTexts :
        \E r \in {_handle_telegram_command(strip(text), <<"1">>, dry_run, meta,
                                           settings, 1)} :
        /\ meta' = r.meta
        /\ sent' = r.sent
        /\ hist' = [hist EXCEPT !.op = "_handle_telegram_command"]
        /\ UNCHANGED <<seen, clock, pc, dry_run, failure_count, inbox,
                       next_update_id, new_listings, hb_result, sleeps, settings>>

\* MonitorService._apply_filters(listings); int(override_price) may raise
ApplyFiltersCall ==
    \E listings \in SeqsUpTo(FilterListings, MaxLen) :
        /\ IF effective_filters_ok(meta)
           THEN /\ new_listings' = _apply_filters(listings, meta, settings)
                /\ hist' = [hist EXCEPT !.op = "_apply_filters", !.arg = listings]
           ELSE /\ new_listings' = <<>>
                /\ hist' = [hist EXCEPT !.op = "_apply_filters raised",
                                        !.arg = listings]
        /\ sent' = <<>>
        /\ UNCHANGED <<seen, meta, clock, pc, dry_run, failure_count, inbox,
                       next_update_id, hb_result, sleeps, settings>>

NextFilter == FilterCommand \/ ApplyFiltersCall

\* calls of MonitorService._apply_filters between filter commands
SpecFilter == InitFilter /\ [][NextFilter]_vars

\* the price rule as the claim states it, for the effective max price M
WithinMaxPrice(listing, M) ==
    \/ M = None
    \/ listing.price_eur = None
    \/ listing.price_eur[1] <= M[1]

\* C12: with an effective max price M no listing with a price of M + 1 or more
\* is let through, and where no keyword is set exactly the listings with no
\* price or a price up to M (M included) are; with no max price set the price
\* rule rejects nothing.
C12_MaxPriceRule ==
    hist.op = "_apply_filters" =>
        LET M == effective_max_price(meta, settings) IN
        /\ \A i \in 1..Len(new_listings) :
               (M # None /\ new_listings[i].price_eur # None) =>
                   ~(new_listings[i].price_eur[1] >= M[1] + 1)
        /\ effective_keywords(meta, settings) = <<>> =>
               new_listings = SelectSeq(hist.arg, LAMBDA l : WithinMaxPrice(l, M))

\* a listing at M = 420 is let through, the one at 421 after it is not
C12_Witness ==
    /\ hist.op = "_apply_filters"
    /\ effective_max_price(meta, settings) = Some(420)
    /\ effective_keywords(meta, settings) = <<>>
    /\ Len(hist.arg) = 2
    /\ hist.arg[1].price_eur = Some(420)
    /\ hist.arg[2].price_eur = Some(421)
    /\ new_listings = <<hist.arg[1]>>

\* the title, locality, provider and url of a listing, one after the other
Concatenation(listing) ==
    listing.title \o <<" ">> \o or_empty(listing.city) \o <<" ">>
        \o or_empty(listing.residence) \o <<" ">> \o listing.url

\* `keyword` occurs in `text`, letter case apart
OccursIgnoringCase(keyword, text) ==
    \E from \in 1..Len(text), to \in 0..Len(text) :
        lower(SubSeq(text, from, to)) = lower(keyword)

MatchesKeyword(listing, K) ==
    \E i \in 1..Len(K) : OccursIgnoringCase(K[i], Concatenation(listing))

\* C13: with a non-empty effective keyword set the listings let through are
\* exactly those within the max price in which a keyword occurs, letter case
\* apart, in title, locality, provider or url; with an empty set the keyword
\* rule rejects nothing.
C13_KeywordRule ==
    hist.op = "_apply_filters" =>
        LET M == effective_max_price(meta, settings)
            K == effective_keywords(meta, settings)
        IN new_listings = SelectSeq(hist.arg, LAMBDA l :
               WithinMaxPrice(l, M) /\ (K # <<>> => MatchesKeyword(l, K)))

\* FILTER_INCLUDE_KEYWORDS=A: the listing of locality A is let through, the one
\* of provider B is not
C13_Witness ==
    /\ hist.op = "_apply_filters"
    /\ effective_keywords(meta, settings) = << <<"a">> >>
    /\ Len(hist.arg) = 2
    /\ hist.arg[1].city = Some(<<"A">>)
    /\ hist.arg[2].residence = Some(<<"B">>)
    /\ new_listings = <<hist.arg[1]>>

-----------------------------------------------------------------------------
(* Fingerprints of the listings handed to filter_new *)

\* StateStore.filter_new(listings) on any listings of the pages
FilterNewAnyCall ==
    \E listings \in SeqsUpTo(Listings, MaxLen) :
        \E f \in {filter_new(seen, meta, listings, clock)} :
        /\ seen' = f.seen
        /\ meta' = f.meta
        /\ new_listings' = f.new_items
        /\ hist' = HistFilterNew(listings, f.new_items, FALSE)
        /\ UNCHANGED <<clock, pc, dry_run, failure_count, inbox, next_update_id,
                       hb_result, sent, sleeps, settings>>

NextIdentity == FilterNewAnyCall \/ Tick(MaxStoreTicks)

\* calls of StateStore.filter_new, which takes the fingerprint of each listing
SpecIdentity == InitStore /\ [][NextIdentity]_vars

SameButFor(a, b, fields) ==
    \A f \in {"title", "url", "price_eur", "city", "residence", "external_id"} \ fields :
        a[f] = b[f]

\* C14: two listings that agree on external id, url, price and on the title
\* up to letter case and surrounding whitespace have one fingerprint, whatever
\* their locality and provider; two that differ in the price alone (absent and 0
\* included), in the url alone or in the external id alone have two.
C14_FingerprintIdentity ==
    hist.op = "filter_new" =>
        \A i, j \in 1..Len(hist.arg) :
            LET a == hist.arg[i]
                b == hist.arg[j]
            IN /\ (/\ a.external_id = b.external_id
                   /\ a.url = b.url
                   /\ a.price_eur = b.price_eur
                   /\ lower(strip(a.title)) = lower(strip(b.title)))
                      => fingerprint(a) = fingerprint(b)
               /\ \A f \in {"price_eur", "url", "external_id"} :
                      (a[f] # b[f] /\ SameButFor(a, b, {f}))
                          => fingerprint(a) # fingerprint(b)

-----------------------------------------------------------------------------
(* The seen set *)

\* C15: the seen set only grows: no step deletes the Seen Entry of a
\* fingerprint or changes its title, url or first-seen timestamp, also when
\* the fingerprint is observed again under another title casing.
C15_SeenSetOnlyGrows ==
    [][ \A f \in DOMAIN seen : f \in DOMAIN seen' /\ seen'[f] = seen[f] ]_vars

\* a later call, at a later time, was given a seen fingerprint under a title
\* written differently from the stored one
C15_Witness ==
    /\ hist.op = "filter_new"
    /\ new_listings = <<>>
    /\ Len(hist.arg) = 1
    /\ fingerprint(hist.arg[1]) \in hist.before
    /\ seen[fingerprint(hist.arg[1])].title # hist.arg[1].title
    /\ seen[fingerprint(hist.arg[1])].first_seen_at # isoformat(clock)

-----------------------------------------------------------------------------
(* Extraction: the structured-data strategy (crous_client.py) *)

\* a JSON value as json.loads returns it: its Python type and its content
JNull == [kind |-> "NoneType", v |-> <<>>]
JStr(text) == [kind |-> "str", v |-> text]
JInt(n) == [kind |-> "int", v |-> n]
JFloat(text) == [kind |-> "float", v |-> text]     \* the float written `text`
JBool(b) == [kind |-> "bool", v |-> b]
JList(items) == [kind |-> "list", v |-> items]
JDict(d) == [kind |-> "dict", v |-> d]

\* payload.get(key) of a dict
json_get(payload, key) ==
    IF key \in DOMAIN payload.v THEN payload.v[key] ELSE JNull

\* bool(value)
json_truthy(value) ==
    CASE value.kind = "NoneType" -> FALSE
      [] value.kind = "bool" -> value.v
      [] value.kind = "int" -> value.v # 0
      [] value.kind = "dict" -> DOMAIN value.v # {}
      [] value.kind = "float" -> value.v # <<"0", ".", "0">>
      [] OTHER -> value.v # <<>>

RECURSIVE concat(_)
concat(seqs) == IF seqs = <<>> THEN <<>> ELSE Head(seqs) \o concat(Tail(seqs))

NestingKeys == <<"@graph", "itemListElement", "mainEntity", "items">>

\* _iter_nodes: the dicts of the payload, each before the ones nested in it
RECURSIVE _iter_nodes(_)
_iter_nodes(payload) ==
    IF payload.kind = "list"
    THEN concat([i \in 1..Len(payload.v) |-> _iter_nodes(payload.v[i])])
    ELSE IF payload.kind = "dict"
    THEN <<payload>> \o concat([k \in 1..Len(NestingKeys) |->
             IF json_get(payload, NestingKeys[k]) # JNull
             THEN _iter_nodes(json_get(payload, NestingKeys[k]))
             ELSE <<>>])
    ELSE <<>>

ListingTypes == { <<"Offer">>, <<"Product">>, <<"Residence">>, <<"Apartment">> }

\* float(text): "value", or the exception it raises
float_of(text) ==
    LET t == strip(text)
        parts == split(t, ".")
    IN IF t = <<"inf">> THEN [is |-> "inf", whole |-> 0]
       ELSE IF int_ok(t) THEN [is |-> "value", whole |-> int(t)]
       ELSE IF Len(parts) = 2 /\ int_ok(parts[1]) /\ int_ok(parts[2])
                /\ parts[1] = strip(parts[1]) /\ parts[2] = strip(parts[2])
       THEN [is |-> "value", whole |-> int(parts[1])]
       ELSE [is |-> "ValueError", whole |-> 0]

\* int(float(raw_price)) in its try block, for a str, an int or a float: the
\* price, or the exception that leaves the block (the block catches a
\* ValueError, and int(inf) raises an OverflowError)
price_of(raw_price) ==
    IF raw_price.kind \in {"str", "float"}
    THEN LET caught(f) ==
                 IF f.is = "inf" THEN [raised |-> TRUE, price |-> None]
                 ELSE IF f.is = "value"
                 THEN [raised |-> FALSE, price |-> Some(f.whole)]
                 ELSE [raised |-> FALSE, price |-> None]
         IN caught(float_of(raw_price.v))
    ELSE IF raw_price.kind = "int"
    THEN [raised |-> FALSE, price |-> Some(raw_price.v)]
    ELSE IF raw_price.kind = "bool"
    THEN [raised |-> FALSE, price |-> Some(IF raw_price.v THEN 1 ELSE 0)]
    ELSE [raised |-> FALSE, price |-> None]

\* the sites of the urls of the model; a url is a site followed by a path
Sites == {"h", "g"}

\* urljoin(base_url, raw_url) for a non-empty reference
urljoin(base_url, raw_url) ==
    IF Head(raw_url) \in Sites THEN raw_url
    ELSE IF Head(raw_url) = "/" THEN <<Head(base_url)>> \o raw_url
    ELSE LET k == CHOOSE i \in 1..Len(base_url) :
                      /\ i = 1 \/ base_url[i] = "/"
                      /\ \A j \in (i + 1)..Len(base_url) : base_url[j] # "/"
         IN IF k = 1 THEN <<Head(base_url), "/">> \o raw_url
            ELSE SubSeq(base_url, 1, k) \o raw_url

_clean_optional_text(value) ==
    IF value.kind = "dict"
    THEN LET maybe_name == json_get(value, "name")
         IN IF maybe_name.kind = "str" /\ strip(maybe_name.v) # <<>>
            THEN Some(strip(maybe_name.v)) ELSE None
    ELSE IF value.kind = "str" /\ strip(value.v) # <<>> THEN Some(strip(value.v))
    ELSE None

\* one node of the structured data: dropped, raising, or a listing
node_outcome(node, base_url) ==
    LET type == json_get(node, "@type")
        name == json_get(node, "name")
        url == json_get(node, "url")
        offers == IF json_get(node, "offers").kind = "dict"
                  THEN json_get(node, "offers") ELSE JDict(<<>>)
        raw_price == IF json_truthy(offers) THEN json_get(offers, "price") ELSE JNull
        title == IF json_truthy(name) THEN strip(name.v) ELSE <<>>
        listing_url == IF json_truthy(url) THEN urljoin(base_url, url.v) ELSE base_url
    IN IF type.kind \in {"list", "dict"} THEN [is |-> "raise", item |-> None]
       ELSE IF ~(type.kind = "str" /\ type.v \in ListingTypes)
       THEN [is |-> "drop", item |-> None]
       ELSE IF json_truthy(name) /\ name.kind # "str" THEN [is |-> "raise", item |-> None]
       ELSE IF title = <<>> THEN [is |-> "drop", item |-> None]
       ELSE IF json_truthy(url) /\ url.kind # "str" THEN [is |-> "raise", item |-> None]
       ELSE IF price_of(raw_price).raised THEN [is |-> "raise", item |-> None]
       ELSE [is |-> "listing",
             item |-> Some(Listing(title, listing_url, price_of(raw_price).price,
                              _clean_optional_text(json_get(node, "addressLocality")),
                              _clean_optional_text(json_get(node, "brand")),
                              _clean_optional_text(json_get(node, "identifier"))))]

\* the nodes _parse_ld_json visits: those of each script whose payload is not
\* empty and is valid JSON
ld_json_nodes(scripts) ==
    concat([i \in 1..Len(scripts) |->
               IF scripts[i].payload = "json" THEN _iter_nodes(scripts[i].data)
               ELSE <<>>])

\* _parse_ld_json: whether it raised, and the listings it returns if not
_parse_ld_json(soup, base_url) ==
    LET outcomes == [i \in 1..Len(ld_json_nodes(soup.scripts)) |->
                        node_outcome(ld_json_nodes(soup.scripts)[i], base_url)]
    IN [raised |-> \E i \in 1..Len(outcomes) : outcomes[i].is = "raise",
        listings |-> concat([i \in 1..Len(outcomes) |-> outcomes[i].item])]

-----------------------------------------------------------------------------
(* Extraction: the card strategy and parse_listings (crous_client.py) *)

IsSpaceChar(c) == c = " "

\* the match of PRICE_REGEX starting at i that takes k digits, if there is one
price_match_at(text, i, k) ==
    /\ i + k - 1 <= Len(text)
    /\ \A j \in i..(i + k - 1) : IsDecimalChar(text[j])
    /\ \E e \in (i + k)..Len(text) :
           /\ text[e] = "€"
           /\ \A j \in (i + k)..(e - 1) : IsSpaceChar(text[j])

\* _extract_price: the leftmost match of two to four digits before a euro sign
_extract_price(text) ==
    IF \E i \in 1..Len(text) : \E k \in 2..4 : price_match_at(text, i, k)
    THEN LET i == CHOOSE a \in 1..Len(text) :
                      /\ \E k \in 2..4 : price_match_at(text, a, k)
                      /\ \A b \in 1..(a - 1) : \A k \in 2..4 : ~price_match_at(text, b, k)
             k == CHOOSE n \in 2..4 :
                      /\ price_match_at(text, i, n)
                      /\ \A m \in (n + 1)..4 : ~price_match_at(text, i, m)
         IN Some(int(SubSeq(text, i, i + k - 1)))
    ELSE None

\* the first run of three digits or more of the url, if there is one
first_digit_run(url) ==
    IF \E i \in 1..(Len(url) - 2) : \A j \in i..(i + 2) : IsDecimalChar(url[j])
    THEN LET i == CHOOSE a \in 1..(Len(url) - 2) :
                      /\ \A j \in a..(a + 2) : IsDecimalChar(url[j])
                      /\ \A b \in 1..(a - 1) : \E j \in b..(b + 2) : ~IsDecimalChar(url[j])
             e == CHOOSE z \in i..Len(url) :
                      /\ \A j \in i..z : IsDecimalChar(url[j])
                      /\ z = Len(url) \/ ~IsDecimalChar(url[z + 1])
         IN Some(SubSeq(url, i, e))
    ELSE None

IdAttributes == <<"data-id", "id", "data-logement-id">>

\* _extract_external_id: the first id attribute of the container that is not
\* blank, else the first run of digits of the url
_extract_external_id(container, fallback_url) ==
    IF container = None THEN None
    ELSE LET attrs == container[1].attrs
             filled == { n \in 1..Len(IdAttributes) :
                           /\ IdAttributes[n] \in DOMAIN attrs
                           /\ strip(attrs[IdAttributes[n]]) # <<>> }
         IN IF filled # {}
            THEN Some(strip(attrs[IdAttributes[CHOOSE n \in filled :
                                                  \A o \in filled : n <= o]]))
            ELSE first_digit_run(fallback_url)

\* one anchor of the page: skipped, or a listing
anchor_outcome(anchor, base_url) ==
    LET href == anchor.href
        container == anchor.container
        listing_url == urljoin(base_url, href)
        text_block == IF container # None THEN strip(container[1].text)
                      ELSE strip(anchor.text)
        title == IF strip(anchor.text) # <<>> THEN strip(anchor.text)
                 ELSE IF container # None /\ container[1].heading # None
                 THEN strip(container[1].heading[1])
                 ELSE <<>>
    IN IF href = <<>> THEN None
       ELSE IF ~contains(href, <<"/", "logement", "/">>)
               /\ ~contains(lower(href), <<"residence">>) THEN None
       ELSE IF title = <<>> THEN None
       ELSE Some(Listing(title, listing_url, _extract_price(text_block), None, None,
                         _extract_external_id(container, listing_url)))

_parse_card_like_elements(soup, base_url) ==
    concat([i \in 1..Len(soup.anchors) |-> anchor_outcome(soup.anchors[i], base_url)])

\* _unique_by_fingerprint, had it kept the last item of each fingerprint
_unique_by_fingerprint_last(items) ==
    concat([i \in 1..Len(items) |->
               IF \E j \in (i + 1)..Len(items) :
                      fingerprint(items[j]) = fingerprint(items[i])
               THEN None ELSE Some(items[i])])

\* _unique_by_fingerprint: the items whose fingerprint no earlier item has

_unique_by_fingerprint(items) ==
    concat([i \in 1..Len(items) |->
               IF \E j \in 1..(i - 1) : fingerprint(items[j]) = fingerprint(items[i])
               THEN None ELSE Some(items[i])])

NoResults == <<"aucun", " ", "logement", " ", "trouvé">>

\* the text an anchor shows: that of its container, which holds its own
text_block(anchor) ==
    IF anchor.container # None THEN anchor.container[1].text ELSE anchor.text

\* soup.get_text(" ", strip=True): the text of the page outside its scripts
get_text(soup) ==
    join(<<" ">>, SelectSeq([i \in 1..(Len(soup.texts) + Len(soup.anchors)) |->
                                IF i <= Len(soup.texts) THEN strip(soup.texts[i])
                                ELSE strip(text_block(soup.anchors[i - Len(soup.texts)]))],
                            LAMBDA t : t # <<>>))

\* parse_listings, had it not looked for the "no results" phrase
parse_listings_any_page(soup, base_url) ==
    LET from(json, cards) ==
            IF json.raised THEN [raised |-> TRUE, listings |-> <<>>]
            ELSE IF json.listings # <<>>
            THEN [raised |-> FALSE, listings |-> _unique_by_fingerprint(json.listings)]
            ELSE [raised |-> FALSE, listings |-> _unique_by_fingerprint(cards)]
    IN from(_parse_ld_json(soup, base_url), _parse_card_like_elements(soup, base_url))

\* parse_listings: whether it raised, and the list it returns if not
parse_listings(soup, base_url) ==
    LET from(json, cards) ==
            IF json.raised THEN [raised |-> TRUE, listings |-> <<>>]
            ELSE IF json.listings # <<>>
            THEN [raised |-> FALSE, listings |-> _unique_by_fingerprint(json.listings)]
            ELSE [raised |-> FALSE, listings |-> _unique_by_fingerprint(cards)]
    IN IF contains(lower(get_text(soup)), NoResults)
       THEN [raised |-> FALSE, listings |-> <<>>]
       ELSE from(_parse_ld_json(soup, base_url), _parse_card_like_elements(soup, base_url))

-----------------------------------------------------------------------------
(* Calls of parse_listings *)

MaxScripts == 2
MaxAnchors == 1

\* the url of the search page
SearchUrl == <<"h", "/", "s">>

Offer == "@type" :> JStr(<<"Offer">>)

Named(text) == "name" :> JStr(text)

Priced(raw_price) == "offers" :> JDict("price" :> raw_price)

\* the values the structured-data blocks of the model hold
JsonValues ==
    { JDict(Offer @@ Named(<<"T", "2">>) @@ ("url" :> JStr(<<"/", "1">>))
              @@ Priced(JStr(<<"4", "2", "0">>)) @@ ("identifier" :> JStr(<<"7">>))),
      JDict(Offer @@ Named(<<" ", "t", "2">>) @@ ("url" :> JStr(<<"/", "1">>))
              @@ Priced(JInt(420)) @@ ("identifier" :> JStr(<<"7">>))
              @@ ("addressLocality" :> JStr(<<"A">>))),
      JDict(("@type" :> JStr(<<"Product">>)) @@ Named(<<"S">>)
              @@ Priced(JStr(<<"a", "b", "c">>)) @@ ("brand" :> JDict(Named(<<"B">>)))),
      JDict(Offer @@ Named(<<"S">>) @@ Priced(JFloat(<<"4", "2", "0", ".", "9">>))),
      JDict(Offer @@ ("url" :> JStr(<<"/", "1">>))),
      JDict(("@type" :> JList(<< JStr(<<"Offer">>) >>)) @@ Named(<<"S">>)),
      JDict(Offer @@ ("name" :> JInt(5))),
      JDict(Offer @@ Named(<<"S">>) @@ ("url" :> JInt(5))),
      JDict(Offer @@ Named(<<"S">>) @@ Priced(JStr(<<"inf">>))),
      JDict(("@type" :> JStr(<<"WebPage">>)) @@ Named(<<"S">>)
              @@ ("@graph" :> JList(<<
                     JDict(Offer @@ Named(<<"T", "2">>) @@ ("url" :> JStr(<<"1">>))),
                     JDict(Offer @@ Named(<<"t", "2">>) @@ ("url" :> JStr(<<"/", "1">>))),
                     JStr(<<"S">>) >>))),
      JStr(<<"S">>) }

\* the structured-data blocks: without text, not valid JSON, or holding a value
Scripts ==
    { [payload |-> "empty", data |-> JNull], [payload |-> "invalid", data |-> JNull] }
        \cup { [payload |-> "json", data |-> d] : d \in JsonValues }

Container(text, heading, attrs) == [text |-> text, attrs |-> attrs, heading |-> heading]

Anchor(href, text, container) == [text |-> text, container |-> container, href |-> href]

\* the anchors of the model's pages
Anchors ==
    { Anchor(<<"/", "logement", "/", "1", "2", "3", "4">>, <<"S">>,
             Some(Container(<<"S", " ", "1", "4", "2", "0", "0", " ", "€">>, None, <<>>))),
      Anchor(<<"g", "/", "residence", "/", "1">>, <<>>,
             Some(Container(<<"T", "2">>, Some(<<"T", "2">>), "data-id" :> <<" ", "7">>))),
      Anchor(<<"/", "about">>, <<"S">>, None) }

\* the text of the model's pages outside scripts and anchors
PageTexts ==
    { <<>>, << <<"S">> >>, << <<"Aucun", " ", "logement">>, <<" ", "trouvé", " ">> >> }

Documents ==
    { [texts |-> t, scripts |-> s, anchors |-> a] :
          t \in PageTexts, s \in SeqsUpTo(Scripts, MaxScripts),
          a \in SeqsUpTo(Anchors, MaxAnchors) }

\* parse_listings(html, base_url=SearchUrl) on any document
ParseCall ==
    /\ hist.op = "init"
    /\ \E html \in Documents :
        \E r \in {parse_listings(html, SearchUrl)} :
        /\ new_listings' = r.listings
        /\ hist' = [hist EXCEPT !.op = "parse_listings", !.html = Some(html),
                                !.raised = r.raised]
        /\ UNCHANGED <<seen, meta, clock, pc, dry_run, failure_count, inbox,
                       next_update_id, hb_result, sent, sleeps, settings>>

NextParse == ParseCall

SpecParse == InitStore /\ [][NextParse]_vars

\* C16: extraction never raises on malformed input: parse_listings returns a
\* list for every document, whatever its structured-data blocks hold (a block
\* that is not valid JSON, a node whose price cannot be converted, whose declared
\* type is not a plain string, whose name or url is not text).
C16_ExtractionNeverRaises ==
    hist.op = "parse_listings" => ~hist.raised

\* the document of the last parse_listings
Html == hist.html[1]

StructuredRecords == _parse_ld_json(Html, SearchUrl).listings

CardRecords == _parse_card_like_elements(Html, SearchUrl)

IsNoResultsPage == contains(lower(get_text(Html)), NoResults)

IsFirstOfItsFingerprint(items, i) ==
    \A j \in 1..(i - 1) : fingerprint(items[j]) # fingerprint(items[i])

\* result holds, in the order of items, the first item of each fingerprint
FirstOccurrencesOf(result, items) ==
    /\ \A k \in 1..Len(result) : \E i \in 1..Len(items) :
           result[k] = items[i] /\ IsFirstOfItsFingerprint(items, i)
    /\ \A i \in 1..Len(items) : \E k \in 1..Len(result) :
           fingerprint(result[k]) = fingerprint(items[i])
    /\ \A k, l \in 1..Len(result) :
           k < l => /\ fingerprint(result[k]) # fingerprint(result[l])
                    /\ \E i, j \in 1..Len(items) :
                           i < j /\ result[k] = items[i] /\ result[l] = items[j]

\* C17: on a page that is not a "no results" page and that extraction does not
\* raise on, if the structured-metadata strategy yields a record the result is
\* its records alone, the first of each fingerprint in their order, and no
\* card record; if it yields none, the result is the card records, likewise.
C17_StrategyOrder ==
    (hist.op = "parse_listings" /\ ~hist.raised /\ ~IsNoResultsPage) =>
        /\ StructuredRecords # <<>> =>
               FirstOccurrencesOf(new_listings, StructuredRecords)
        /\ StructuredRecords = <<>> =>
               FirstOccurrencesOf(new_listings, CardRecords)

\* a page with two structured records of one fingerprint and a card: the result
\* is the first structured record
C17_Witness ==
    /\ hist.op = "parse_listings" /\ ~hist.raised /\ ~IsNoResultsPage
    /\ Len(StructuredRecords) = 2
    /\ fingerprint(StructuredRecords[1]) = fingerprint(StructuredRecords[2])
    /\ StructuredRecords[1] # StructuredRecords[2]
    /\ CardRecords # <<>>
    /\ new_listings = <<StructuredRecords[1]>>

-----------------------------------------------------------------------------
(* The loop over pages that parse_listings reads *)

\* fetch_listings once the page has come: what parse_listings makes of it
fetch_listings(html) ==
    LET from(r) == [ok |-> ~r.raised, listings |-> r.listings]
    IN from(parse_listings(html, SearchUrl))

Page(texts, data, anchor) ==
    [texts |-> texts, scripts |-> << [payload |-> "json", data |-> data] >>,
     anchors |-> <<anchor>>]

ListingAnchor ==
    Anchor(<<"/", "logement", "/", "1", "2", "3", "4">>, <<"S">>,
           Some(Container(<<"S", " ", "1", "4", "2", "0", "0", " ", "€">>, None, <<>>)))

ListingNode ==
    JDict(Offer @@ Named(<<"T", "2">>) @@ ("url" :> JStr(<<"/", "1">>))
            @@ Priced(JStr(<<"4", "2", "0">>)) @@ ("identifier" :> JStr(<<"7">>)))

\* an anchor of a listing in a container that says that nothing was found
NothingFoundAnchor ==
    Anchor(<<"/", "logement", "/", "1", "2", "3", "4">>, <<"S">>,
           Some(Container(<<"S", " ">> \o NoResults, None, <<>>)))

\* the search pages of the loop: each holds a listing anchor and a structured
\* block, with or without a listing in it; two say that nothing was found
CyclePages ==
    { Page(<< <<"Aucun", " ", "logement">>, <<" ", "trouvé", " ">> >>,
           ListingNode, ListingAnchor),
      Page(<<>>, ListingNode, NothingFoundAnchor),
      Page(<< <<"S">> >>, ListingNode, ListingAnchor),
      Page(<<>>, JStr(<<"S">>), ListingAnchor) }

\* the calls of send_new_listing counted: each starts with a post to the first
\* chat, delivered or not
Notified(counts, posts) ==
    LET called == { posts[i].about : i \in { j \in 1..Len(posts) :
                        posts[j].kind = "new_listing"
                            /\ posts[j].to = telegram_chat_ids[1] } }
        times(f) == Cardinality({ j \in 1..Len(posts) :
                        posts[j].kind = "new_listing" /\ posts[j].about = f
                            /\ posts[j].to = telegram_chat_ids[1] })
        before(f) == IF f \in DOMAIN counts THEN counts[f] ELSE 0
    IN [f \in DOMAIN counts \cup called |->
           IF f \in called THEN Min(2, before(f) + times(f)) ELSE counts[f]]

\* poll_once(search_urls, dry_run) called on its own, each fetch raising in the
\* network or handing its page to parse_listings
PollPagesCall ==
    \E html \in [1..NumSources -> CyclePages], up \in [1..NumSources -> BOOLEAN] :
        \E pages \in {[i \in 1..NumSources |->
                          IF up[i] THEN fetch_listings(html[i])
                          ELSE [ok |-> FALSE, listings |-> <<>>]]} :
        /\ IF fetch_raises(pages)
           THEN /\ sent' = <<>>
                /\ hist' = [hist EXCEPT !.op = "poll_once", !.fetch_failed = TRUE,
                                        !.fetched = fetched_before_failure(pages),
                                        !.html = Some(html), !.raised = TRUE]
                /\ UNCHANGED <<seen, meta, new_listings>>
           ELSE \E net \in 0..(Len(telegram_chat_ids) * Len(extend_all(pages))) :
                \E r \in {poll_after_fetch(seen, meta, settings, extend_all(pages),
                                            clock, dry_run, net)} :
                /\ seen' = r.seen
                /\ meta' = r.meta
                /\ new_listings' = r.new_items
                /\ sent' = r.sent
                /\ hist' = [hist EXCEPT
                               !.op = "poll_once",
                               !.fetch_failed = FALSE,
                               !.fetched = fetched_before_failure(pages),
                               !.html = Some(html), !.raised = r.raised,
                               !.dry_seen = DrySeen(@, r.new_items, dry_run),
                               !.notified = Notified(@, r.sent)]
        /\ UNCHANGED <<clock, pc, dry_run, failure_count, inbox, next_update_id,
                       hb_result, sleeps, settings>>

NextPage == PollPagesCall \/ Tick(MaxStoreTicks)

\* cycles over the pages of the loop
SpecPage == InitStore /\ [][NextPage]_vars

\* the page shows the "no results" phrase
ShowsNoResults(html) == contains(lower(get_text(html)), NoResults)

HasListingMarkup(html) ==
    \/ _parse_ld_json(html, SearchUrl).listings # <<>>
    \/ _parse_card_like_elements(html, SearchUrl) # <<>>

\* C18: a cycle whose pages all show the "no results" phrase gets no listing
\* from parse_listings, whatever structured blocks and listing anchors the
\* pages hold, so it marks nothing seen and notifies nothing.
C18_NoResultsPage ==
    [][ (hist'.op = "poll_once" /\ ~hist'.fetch_failed
            /\ \A i \in 1..NumSources : ShowsNoResults(hist'.html[1][i])) =>
        /\ hist'.fetched = <<>>
        /\ ~hist'.raised
        /\ new_listings' = <<>>
        /\ seen' = seen
        /\ sent' = <<>> ]_vars

\* such a cycle, over two pages that hold listings, with a listing unseen
C18_Witness ==
    /\ hist.op = "poll_once" /\ ~hist.fetch_failed
    /\ \A i \in 1..NumSources :
           ShowsNoResults(hist.html[1][i]) /\ HasListingMarkup(hist.html[1][i])
    /\ hist.html[1][1] # hist.html[1][2]
    /\ seen = <<>>
    /\ sent = <<>>

\* C19: the backoff slept after a failed cycle is min(300, 2^min(n, 8)) seconds,
\* n being the consecutive-failure counter that register_failure returned for
\* that failure, in every run of the process, the first failure after a
\* restart in the middle of a failure streak included.
C19_BackoffFollowsPersistedCounter ==
    [][ hist'.op = "backoff_sleep" =>
            sleeps'[Len(sleeps')].seconds = Min(300, 2 ^ Min(hist.count_returned, 8))
      ]_vars

-----------------------------------------------------------------------------
(* Calls of _compute_sleep under the settings load_settings accepts *)

MaxPollInterval == 33
MaxJitter == 3

MinPollInterval == 30
MinJitter == 0

\* _get_int: the value of the variable, or None where it raises ValueError
_get_int(raw_value, minimum) ==
    IF int(strip(raw_value)) < minimum THEN None ELSE Some(int(strip(raw_value)))

\* the values POLL_INTERVAL_SECONDS and POLL_JITTER_SECONDS are set to
RawPollIntervals == { str(n) : n \in (MinPollInterval - 1)..MaxPollInterval }

RawJitters == { str(n) : n \in 0..MaxJitter }

\* the Settings load_settings returns: it raises where a _get_int does
SleepSettings ==
    { SettingsOf(None, <<>>, FALSE, 2, 2, 2, _get_int(i, MinPollInterval)[1],
                 _get_int(j, MinJitter)[1]) :
        i \in { r \in RawPollIntervals : _get_int(r, MinPollInterval) # None },
        j \in { r \in RawJitters : _get_int(r, MinJitter) # None } }

InitSleep == InitWith(SleepSettings) /\ ~dry_run

\* sleep_seconds = _compute_sleep(interval, jitter), random.randint giving delta
ComputeSleepCall ==
    /\ Len(sleeps) < MaxLen
    /\ \E delta \in (0 - settings.poll_jitter_seconds)..settings.poll_jitter_seconds :
           sleeps' = Append(sleeps,
                            [kind |-> "interval",
                             seconds |-> _compute_sleep(settings.poll_interval_seconds,
                                                        settings.poll_jitter_seconds,
                                                        delta)])
    /\ hist' = [hist EXCEPT !.op = "_compute_sleep"]
    /\ UNCHANGED <<seen, meta, clock, pc, dry_run, failure_count, inbox,
                   next_update_id, new_listings, hb_result, sent, settings>>

NextSleep == ComputeSleepCall

SpecSleep == InitSleep /\ [][NextSleep]_vars

\* C20: under an interval of 30 or more and a jitter of 0 or more, every
\* inter-poll sleep is 30 seconds or more and lies between interval - jitter
\* and interval + jitter, both raised to 30 where below; with no jitter it is
\* the interval.
C20_SleepBounds ==
    \A k \in 1..Len(sleeps) :
        (sleeps[k].kind = "interval" /\ settings.poll_interval_seconds >= 30
            /\ settings.poll_jitter_seconds >= 0) =>
        /\ sleeps[k].seconds >= 30
        /\ sleeps[k].seconds >= settings.poll_interval_seconds - settings.poll_jitter_seconds
               \/ sleeps[k].seconds = 30
        /\ sleeps[k].seconds <= settings.poll_interval_seconds + settings.poll_jitter_seconds
        /\ settings.poll_jitter_seconds = 0 =>
               sleeps[k].seconds = settings.poll_interval_seconds

\* interval 31 and jitter 3: one sleep raised to 30, one at the upper end
C20_Witness ==
    /\ settings.poll_interval_seconds = 31
    /\ settings.poll_jitter_seconds = 3
    /\ Len(sleeps) = 2
    /\ sleeps[1] = [kind |-> "interval", seconds |-> 30]
    /\ sleeps[2] = [kind |-> "interval", seconds |-> 34]

-----------------------------------------------------------------------------
(* Cycles over one store, by runs with and without --dry-run *)

\* the process is started again on the same database, with or without --dry-run
Rerun ==
    /\ dry_run' \in BOOLEAN
    /\ dry_run' # dry_run
    /\ sent' = <<>>
    /\ hist' = [hist EXCEPT !.op = "restart"]
    /\ UNCHANGED <<seen, meta, clock, pc, failure_count, inbox, next_update_id,
                   new_listings, hb_result, sleeps, settings>>

NextNotify == PollPagesCall \/ Tick(MaxStoreTicks) \/ Rerun

SpecNotify == Init /\ [][NextNotify]_vars

TimesNotified(f) == IF f \in DOMAIN hist.notified THEN hist.notified[f] ELSE 0

\* C21: over any sequence of cycles against one store, failed or not, dry-run
\* or not, send_new_listing is called at most once per fingerprint, and never
\* for a listing that the store already held as seen.
C21_NotifiedAtMostOnce ==
    [][ /\ \A f \in DOMAIN hist'.notified : hist'.notified[f] <= 1
        /\ \A i \in 1..Len(sent') :
               (hist'.op = "poll_once" /\ sent'[i].kind = "new_listing") =>
                   sent'[i].about \notin DOMAIN seen ]_vars

\* a cycle fetches a listing that an earlier cycle notified, and posts nothing
C21_Witness ==
    /\ hist.op = "poll_once" /\ ~hist.fetch_failed /\ ~dry_run
    /\ hist.fetched # <<>>
    /\ \A i \in 1..Len(hist.fetched) : TimesNotified(fingerprint(hist.fetched[i])) = 1
    /\ new_listings = <<>>
    /\ sent = <<>>

\* C22: no new listing is lost in non-dry-run operation: a listing that a
\* non-dry-run cycle persisted as seen has been handed to send_new_listing, the
\* only way left for it to be notified, since a seen listing is not returned
\* by filter_new again; so also for the new listings that follow one whose
\* delivery failed.
C22_NoSilentLoss ==
    \A f \in DOMAIN seen : f \notin hist.dry_seen => TimesNotified(f) >= 1

\* C23: outside dry runs a command update is handled at most once: no sync
\* handles an update that an earlier sync handled, whatever became of the
\* later updates of that earlier batch.
C23_CommandHandledAtMostOnce ==
    [][ (hist'.op = "sync_telegram_commands" /\ ~dry_run) =>
            \A j \in 1..Len(hist'.outcomes) :
                hist'.outcomes[j] = "handled" =>
                    hist'.batch[j].update_id \notin hist.handled ]_vars

OffsetRow(m) ==
    IF "telegram_update_offset" \in DOMAIN m THEN Some(m["telegram_update_offset"])
    ELSE None

LargestUpdateId(batch) ==
    CHOOSE n \in { batch[i].update_id : i \in 1..Len(batch) } :
        \A i \in 1..Len(batch) : batch[i].update_id <= n

\* C24: the persisted command offset never decreases: a sync that writes it
\* stores one more than the largest update id of the fetched batch, which is
\* more than the offset stored before (absent counts as 0); a sync that fetches
\* no update, or runs in dry-run mode, leaves it as it was.
C24_OffsetNeverDecreases ==
    [][ /\ stored_offset(meta') >= stored_offset(meta)
        /\ hist'.op = "sync_telegram_commands" =>
              /\ OffsetRow(meta') # OffsetRow(meta) =>
                     /\ hist'.batch # <<>>
                     /\ ~dry_run
                     /\ stored_offset(meta') = LargestUpdateId(hist'.batch) + 1
                     /\ stored_offset(meta') > stored_offset(meta)
              /\ (hist'.batch = <<>> \/ dry_run) => OffsetRow(meta') = OffsetRow(meta)
      ]_vars

\* a second batch moves the offset on, from 2 to 3
C24_Witness ==
    /\ hist.op = "sync_telegram_commands" /\ ~dry_run
    /\ Len(hist.batch) = 1
    /\ hist.batch[1].update_id = 2
    /\ stored_offset(meta) = 3

\* C25: whatever commands have been handled, the stored max-price override is
\* absent, empty, or a text that _get_effective_filters converts with int()
\* without a ValueError, so that no command makes later filtering fail.
C25_OverrideAlwaysParseable ==
    LET override_price == get_meta(meta, "filter_max_price_override")
    IN truthy(override_price) => int_ok(override_price[1])

\* the commands that write filter rows, and one that does not
RerunTexts ==
    { <<"/setmaxprice", " ", "5", "0", "0">>,
      <<"/setmaxprice", " ", "^2">>,
      <<"/clearmaxprice">>,
      <<"/setkeywords", " ", "T", ",", " ", "u", "2", ",", "t">>,
      <<"/clearkeywords">>,
      <<"/showfilters">> }

RerunMessages == { Some(Message(<<"1">>, text)) : text \in RerunTexts }

NextRerunCmd == UserSends(RerunMessages, MaxUpdateId) \/ SyncCall \/ Rerun

\* calls of MonitorService.sync_telegram_commands over runs with and without
\* --dry-run on one store
SpecRerunCmd == InitCmd /\ [][NextRerunCmd]_vars

\* C26: a command sync in dry-run mode changes neither the max-price override,
\* nor the keyword override, nor the stored command offset, whatever the
\* fetched batch holds: the effective filter after it is the one before it.
C26_DryRunSyncKeepsFilters ==
    [][ (hist'.op = "sync_telegram_commands" /\ dry_run) =>
            /\ get_meta(meta', "filter_max_price_override")
                   = get_meta(meta, "filter_max_price_override")
            /\ get_meta(meta', "filter_keywords_override")
                   = get_meta(meta, "filter_keywords_override")
            /\ get_meta(meta', "telegram_update_offset")
                   = get_meta(meta, "telegram_update_offset")
            /\ effective_filters_ok(meta') = effective_filters_ok(meta)
            /\ effective_filters_ok(meta) =>
                   /\ effective_max_price(meta', settings)
                          = effective_max_price(meta, settings)
                   /\ effective_keywords(meta', settings)
                          = effective_keywords(meta, settings)
      ]_vars

\* a dry run handles /clearmaxprice and /setkeywords commands on a store that
\* an earlier run left with a max-price override and an offset
C26_Witness ==
    /\ hist.op = "sync_telegram_commands" /\ dry_run
    /\ truthy(get_meta(meta, "filter_max_price_override"))
    /\ truthy(get_meta(meta, "telegram_update_offset"))
    /\ \E i \in 1..Len(hist.batch) :
           /\ hist.outcomes[i] = "handled"
           /\ hist.batch[i].message # None
           /\ hist.batch[i].message[1].text
                  \in { <<"/clearmaxprice">>,
                        <<"/setkeywords", " ", "T", ",", " ", "u", "2", ",", "t">> }

====
